---- MODULE Spec2Model ----
(***************************************************************************)
(* Model of fdict (src/fdict/fdict.py): a nested dictionary stored as one  *)
(* flat dict keyed by delimiter-joined paths, with the three operating     *)
(* modes default, fastview and nodel.                                      *)
(*                                                                         *)
(* Strings are sequences of one-character strings, so that the string      *)
(* operations of the code (find, rfind, startswith, slicing, join) are     *)
(* computed as Python computes them.                                       *)
(***************************************************************************)
EXTENDS Integers, Sequences, FiniteSets, TLC

VARIABLES
    heap,        \* the dict objects: the backing map of the root fdict and of every view
    fastview,    \* self.fastview
    nodel,       \* self.nodel
    delimiter,   \* self.delimiter
    last,        \* the last call: operation, view, arguments, exception, result
    prev,        \* the backing map of the root before the last call
    history,     \* the operations called so far
    made,        \* the fdict returned by the last copy() or extract(), if any
    shelf        \* the persistence of an sfdict: its file, its options, its syncs

vars == <<heap, fastview, nodel, delimiter, last, prev, history, made, shelf>>

(***************************************************************************)
(* Bounds                                                                  *)
(***************************************************************************)
\* number of path segments of the longest full path an operation names
MaxDepth == 3
\* number of operations in one run
MaxOps == 2
\* number of operations in a run of the operations that only read
MaxReads == 1

\* segment names, leaf payloads
Segments == {"a", "b"}
LeafValues == {0, 1}

(***************************************************************************)
(* Python string primitives                                                *)
(***************************************************************************)
EmptyStr == SubSeq(<<"a">>, 1, 0)

SetMax(S) == CHOOSE x \in S : \A y \in S : y <= x
SetMin(S) == CHOOSE x \in S : \A y \in S : x <= y

\* s[i:j] with 0 <= i, j (Python slice, clamped to the string)
Slice(s, i, j) ==
    LET jj == IF j > Len(s) THEN Len(s) ELSE j
    IN IF i >= jj THEN EmptyStr ELSE SubSeq(s, i + 1, jj)

\* s.startswith(p), s.endswith(p)
StartsWith(s, p) == Len(p) <= Len(s) /\ SubSeq(s, 1, Len(p)) = p
EndsWith(s, p) == Len(p) <= Len(s) /\ SubSeq(s, Len(s) - Len(p) + 1, Len(s)) = p

\* s.find(sub, start): lowest index >= start where sub occurs, else -1
StrFind(s, sub, start) ==
    LET c == {i \in start..(Len(s) - Len(sub)) : SubSeq(s, i + 1, i + Len(sub)) = sub}
    IN IF c = {} THEN -1 ELSE SetMin(c)

\* s.rfind(sub, start, end): highest index where sub occurs within s[start:end], else -1
StrRFind(s, sub, start, end) ==
    LET e == IF end > Len(s) THEN Len(s) ELSE end
        c == {i \in start..(e - Len(sub)) : SubSeq(s, i + 1, i + Len(sub)) = sub}
    IN IF c = {} THEN -1 ELSE SetMax(c)

\* s[-1:]
LastChars(s) == IF Len(s) = 0 THEN EmptyStr ELSE SubSeq(s, Len(s), Len(s))

\* delim.join(parts) for a sequence of strings
RECURSIVE StrJoin(_, _)
StrJoin(delim, parts) ==
    IF Len(parts) = 0 THEN EmptyStr
    ELSE IF Len(parts) = 1 THEN parts[1]
    ELSE parts[1] \o delim \o StrJoin(delim, Tail(parts))

(***************************************************************************)
(* Path engine                                                             *)
(***************************************************************************)
\* fdict._build_path: join the non-empty parts among prepend, rootpath, key
\* (filter(None, parts) drops the empty strings)
build_path(delim, rootpath, key, prepend) ==
    StrJoin(delim, SelectSeq(<<prepend, rootpath, key>>, LAMBDA p : Len(p) > 0))

\* fdict._get_all_parent_nodes: the sequence the generator yields
RECURSIVE parent_nodes_from(_, _, _)
parent_nodes_from(path, delim, pos) ==
    IF pos = -1 THEN <<>>
    ELSE <<Slice(path, 0, pos + 1)>> \o
         parent_nodes_from(path, delim, StrRFind(path, delim, 0, pos))

get_all_parent_nodes(path, delim) ==
    parent_nodes_from(path, delim, StrRFind(path, delim, 0, Len(path)))

\* fdict._get_parent_node
get_parent_node(path, delim) ==
    LET endpos == IF EndsWith(path, delim) THEN Len(path) - 1 ELSE Len(path)
    IN Slice(path, 0, StrRFind(path, delim, 0, endpos) + 1)

\* fdict._get_all_parent_nodes_nested: the sequence the generator yields
RECURSIVE parent_nodes_nested_from(_, _, _, _)
parent_nodes_nested_from(path, delim, lastpos, pos) ==
    IF pos = -1 THEN <<>>
    ELSE <<Slice(path, lastpos, pos)>> \o
         parent_nodes_nested_from(path, delim, pos + 1, StrFind(path, delim, pos + 1))

get_all_parent_nodes_nested(path, delim) ==
    parent_nodes_nested_from(path, delim, 0, StrFind(path, delim, 0))

(***************************************************************************)
(* The backing dict: a function from full keys to stored values.  A stored *)
(* value is a leaf payload, a fastview node marker (a set of child full    *)
(* keys) or a nodel node marker (None).                                    *)
(***************************************************************************)
Leaf(v) == [kind |-> "leaf", v |-> v, ch |-> {}]
NodeSet(S) == [kind |-> "set", v |-> 0, ch |-> S]
NoneVal == [kind |-> "none", v |-> 0, ch |-> {}]

EmptyDict == [k \in {} |-> NoneVal]

\* d[k] = val
DictSet(D, k, val) == [x \in (DOMAIN D) \cup {k} |-> IF x = k THEN val ELSE D[x]]
\* the dict without the keys of K
DictDrop(D, K) == [x \in (DOMAIN D) \ K |-> D[x]]
\* d.update(D2)
DictUpdate(D, D2) ==
    [x \in (DOMAIN D) \cup (DOMAIN D2) |-> IF x \in DOMAIN D2 THEN D2[x] ELSE D[x]]

\* outcome of a call that mutates the dict in place: the dict as the call
\* leaves it, and the exception it raised ("none" when it returned)
Ok(D) == [d |-> D, err |-> "none"]
Raise(D, e) == [d |-> D, err |-> e]

\* a __delitem__ that would find the key and keep it: the delete properties
\* have to tell it from DictDelItem
DictKeepItem(D, k) ==
    IF k \in DOMAIN D THEN Ok(D) ELSE Raise(D, "KeyError")

\* dict.__delitem__(k)
DictDelItem(D, k) ==
    IF k \in DOMAIN D THEN Ok(DictDrop(D, {k})) ELSE Raise(D, "KeyError")

\* a key that ends with the delimiter: k[-1:] == delimiter
IsNodeKey(k, delim) == LastChars(k) = delim

(***************************************************************************)
(* viewkeys                                                                *)
(***************************************************************************)
\* a set of yielded keys, or the exception the generator raised
Keys(K) == [keys |-> K, err |-> "none"]

\* fastview worklist traversal of viewkeys: `todo` is the set `children`,
\* `seen` the children already popped.  A node child whose marker is not
\* stored makes d.__getitem__(child) raise KeyError: err records it, and keys
\* are the children that the traversal can yield before it.
RECURSIVE fastview_walk(_, _, _, _, _, _)
fastview_step(D, delim, todo, seen, nodes, err, child) ==
    IF IsNodeKey(child, delim) THEN
        IF child \notin DOMAIN D
        THEN fastview_walk(D, delim, todo \ {child}, seen, nodes, "KeyError")
        ELSE fastview_walk(D, delim, (todo \ {child}) \cup (D[child].ch \ (seen \cup {child})),
                           seen \cup {child}, nodes, err)
    ELSE fastview_walk(D, delim, todo \ {child}, seen \cup {child}, nodes, err)

fastview_walk(D, delim, todo, seen, nodes, err) ==
    IF todo = {} THEN [keys |-> {k \in seen : nodes \/ ~IsNodeKey(k, delim)}, err |-> err]
    ELSE fastview_step(D, delim, todo, seen, nodes, err, CHOOSE c \in todo : TRUE)

\* the yielded keys, shortened by the pattern unless fullpath
CutKeys(w, lpattern) == [keys |-> {Slice(k, lpattern, Len(k)) : k \in w.keys}, err |-> w.err]

\* viewkeys below a rootpath: pattern = rootpath + delimiter
viewkeys_under(D, fv, nd, delim, pattern, lpattern, nodes) ==
    IF fv THEN
        IF pattern \in DOMAIN D
        THEN CutKeys(fastview_walk(D, delim, D[pattern].ch, {}, nodes, "none"), lpattern)
        ELSE Keys({})
    ELSE IF nd THEN
        CutKeys(Keys({x \in DOMAIN D :
                        /\ StartsWith(x, pattern)
                        /\ \/ (nodes /\ Len(x) # Len(pattern))
                           \/ ~IsNodeKey(x, delim)}), lpattern)
    ELSE CutKeys(Keys({x \in DOMAIN D : StartsWith(x, pattern)}), lpattern)

\* viewkeys once the rootpath is chosen
viewkeys_at(D, fv, nd, delim, rootpath, fullpath, nodes) ==
    IF Len(rootpath) = 0 THEN
        IF fv \/ nd
        THEN Keys({k \in DOMAIN D : nodes \/ ~IsNodeKey(k, delim)})
        ELSE Keys(DOMAIN D)
    ELSE viewkeys_under(D, fv, nd, delim, rootpath \o delim,
                        IF fullpath THEN 0 ELSE Len(rootpath) + Len(delim), nodes)

\* fdict.viewkeys(fullpath, nodes, rootpath) of an fdict over dict D scoped at
\* selfroot; the result is the set of keys the generator yields
viewkeys(D, fv, nd, delim, selfroot, fullpath, nodes, rootpathArg) ==
    viewkeys_at(D, fv, nd, delim, IF Len(rootpathArg) = 0 THEN selfroot ELSE rootpathArg,
                fullpath, nodes)

(***************************************************************************)
(* __contains__ and __getitem__                                            *)
(***************************************************************************)
\* fdict.__contains__ once the full key is built
contains_fullkey(D, fv, nd, delim, rootpath, fullkey) ==
    IF fullkey \in DOMAIN D THEN TRUE
    ELSE IF fv \/ nd THEN (fullkey \o delim) \in DOMAIN D
    ELSE \E k \in viewkeys(D, fv, nd, delim, rootpath, TRUE, FALSE, EmptyStr).keys :
             StartsWith(k, fullkey \o delim)

\* fdict.__contains__
contains(D, fv, nd, delim, rootpath, key) ==
    contains_fullkey(D, fv, nd, delim, rootpath, build_path(delim, rootpath, key, EmptyStr))

\* a __getitem__ that would hand the view a dict object of its own: the view
\* aliasing property has to tell it from getitem_view
getitem_copy(h, fullkey) == [ref |-> "other", rootpath |-> fullkey]

\* fdict.__getitem__ through the handle h = [ref, rootpath]: the stored value
\* on an exact match, else a view: a new fdict over the SAME dict object
\* (d=self.d) with rootpath=fullkey
getitem_view(h, fullkey) == [ref |-> h.ref, rootpath |-> fullkey]

getitem_fullkey(H, h, fullkey) ==
    IF fullkey \in DOMAIN H[h.ref]
    THEN [isview |-> FALSE, value |-> H[h.ref][fullkey], view |-> h]
    ELSE [isview |-> TRUE, value |-> NoneVal, view |-> getitem_view(h, fullkey)]

getitem(H, delim, h, key) ==
    getitem_fullkey(H, h, build_path(delim, h.rootpath, key, EmptyStr))

(***************************************************************************)
(* Metadata index                                                          *)
(***************************************************************************)
\* one step of the inner loop of _build_metadata: link lastparent into parent,
\* creating the marker when it is absent
link_child(D, parent, lastparent) ==
    IF parent \in DOMAIN D
    THEN DictSet(D, parent, NodeSet(D[parent].ch \cup {lastparent}))
    ELSE DictSet(D, parent, NodeSet({lastparent}))

\* inner loop of _build_metadata over the parents, nearest first
RECURSIVE build_parents(_, _, _)
build_parents(D, parents, lastparent) ==
    IF Len(parents) = 0 THEN D
    ELSE build_parents(link_child(D, Head(parents), lastparent), Tail(parents), Head(parents))

\* body of the outer loop of _build_metadata
build_metadata_key(D, delim, fullkey) ==
    IF ~IsNodeKey(fullkey, delim)
    THEN build_parents(D, get_all_parent_nodes(fullkey, delim), fullkey)
    ELSE D

\* fdict._build_metadata(fullkeys); the result does not depend on the order
\* in which the keys are visited
RECURSIVE build_metadata(_, _, _)
build_metadata_next(D, delim, fullkeys, fullkey) ==
    build_metadata(build_metadata_key(D, delim, fullkey), delim, fullkeys \ {fullkey})

build_metadata(D, delim, fullkeys) ==
    IF fullkeys = {} THEN D
    ELSE build_metadata_next(D, delim, fullkeys, CHOOSE k \in fullkeys : TRUE)

\* inner loop of _build_metadata_nodel
RECURSIVE build_parents_nodel(_, _)
build_parents_nodel(D, parents) ==
    IF Len(parents) = 0 THEN D
    ELSE build_parents_nodel(IF Head(parents) \notin DOMAIN D
                             THEN DictSet(D, Head(parents), NoneVal) ELSE D,
                             Tail(parents))

\* body of the outer loop of _build_metadata_nodel
build_metadata_nodel_key(D, delim, fullkey) ==
    IF ~IsNodeKey(fullkey, delim)
    THEN build_parents_nodel(D, get_all_parent_nodes(fullkey, delim))
    ELSE D

\* fdict._build_metadata_nodel(fullkeys)
RECURSIVE build_metadata_nodel(_, _, _)
build_metadata_nodel_next(D, delim, fullkeys, fullkey) ==
    build_metadata_nodel(build_metadata_nodel_key(D, delim, fullkey), delim,
                         fullkeys \ {fullkey})

build_metadata_nodel(D, delim, fullkeys) ==
    IF fullkeys = {} THEN D
    ELSE build_metadata_nodel_next(D, delim, fullkeys, CHOOSE k \in fullkeys : TRUE)

\* the metadata of the mode for the given full keys (none in default mode)
build_mode_metadata(D, fv, nd, delim, fullkeys) ==
    IF fv THEN build_metadata(D, delim, fullkeys)
    ELSE IF nd THEN build_metadata_nodel(D, delim, fullkeys)
    ELSE D

(***************************************************************************)
(* __delitem__                                                             *)
(***************************************************************************)
\* `for k in keystodel: self.d.__delitem__(k)`.  When a key of keystodel is
\* not stored the loop raises KeyError part-way; how many keys were deleted
\* before depends on the iteration order of a Python set, so the two extreme
\* outcomes are both modelled: `first` says the missing key is met first.
delete_all(D, keystodel, first) ==
    IF keystodel \subseteq DOMAIN D THEN Ok(DictDrop(D, keystodel))
    ELSE Raise(IF first THEN D ELSE DictDrop(D, keystodel), "KeyError")

\* self.d.__getitem__(parentnode).remove(child): the dict afterwards
unlink_child(D, parentnode, child) ==
    IF parentnode \notin DOMAIN D THEN Raise(D, "KeyError")
    ELSE IF child \notin D[parentnode].ch THEN Raise(D, "KeyError")
    ELSE Ok(DictSet(D, parentnode, NodeSet(D[parentnode].ch \ {child})))

\* the step that follows an earlier step r, unless r raised
ThenDelItem(r, k) == IF r.err # "none" THEN r ELSE DictDelItem(r.d, k)
ThenDeleteAll(r, keystodel, first) ==
    IF r.err # "none" THEN r ELSE delete_all(r.d, keystodel, first)

RECURSIVE delitem_fullkey(_, _, _, _, _, _)

\* stored key, fastview: u is the dict after the key was removed from its
\* parent's child-set; an emptied parent is deleted recursively, then the key
delitem_stored_unlinked(u, delim, selfroot, fullkey, parentnode, first) ==
    IF u.err # "none" THEN u
    ELSE IF u.d[parentnode].ch = {}
    THEN ThenDelItem(delitem_fullkey(u.d, TRUE, delim, selfroot, parentnode, first), fullkey)
    ELSE DictDelItem(u.d, fullkey)

\* the key is stored: delete it directly
delitem_stored(D, fv, delim, selfroot, fullkey, parentnode, first) ==
    IF fv /\ Len(parentnode) > 0
    THEN delitem_stored_unlinked(unlink_child(D, parentnode, fullkey),
                                 delim, selfroot, fullkey, parentnode, first)
    ELSE DictDelItem(D, fullkey)

\* node, fastview: u is the dict after the node marker was deleted and removed
\* from its parent's child-set; an emptied parent is deleted recursively, then
\* the keys gathered from the child-set graph
delitem_node_unlinked(u, delim, selfroot, parentnode, keystodel, first) ==
    IF u.err # "none" THEN u
    ELSE IF u.d[parentnode].ch = {}
    THEN ThenDeleteAll(delitem_fullkey(u.d, TRUE, delim, selfroot,
                                       Slice(parentnode, 0, Len(parentnode) - 1), first),
                       keystodel, first)
    ELSE delete_all(u.d, keystodel, first)

\* node, fastview: D1 is the dict after self.d.__delitem__(dirkey)
delitem_node_parent(D1, delim, selfroot, dirkey, parentnode, keystodel, first) ==
    IF Len(parentnode) > 0
    THEN delitem_node_unlinked(unlink_child(D1, parentnode, dirkey),
                               delim, selfroot, parentnode, keystodel, first)
    ELSE delete_all(D1, keystodel, first)

\* node, fastview: vk is what viewkeys(fullpath=True, nodes=True,
\* rootpath=fullkey) yields
delitem_node_fastview(D, delim, selfroot, fullkey, dirkey, vk, first) ==
    IF vk.err # "none" THEN Raise(D, vk.err)
    ELSE IF dirkey \notin DOMAIN D THEN Raise(D, "KeyError")
    ELSE delitem_node_parent(DictDrop(D, {dirkey}), delim, selfroot, dirkey,
                             get_parent_node(fullkey, delim), vk.keys, first)

\* node, default mode: keystodel are the stored keys that start with dirkey
delitem_node_scan(D, keystodel, first) ==
    IF keystodel = {} THEN Raise(D, "KeyError") ELSE delete_all(D, keystodel, first)

\* fdict.__delitem__ once the full key is known (default and fastview modes)
delitem_fullkey(D, fv, delim, selfroot, fullkey, first) ==
    IF fullkey \in DOMAIN D
    THEN delitem_stored(D, fv, delim, selfroot, fullkey, get_parent_node(fullkey, delim), first)
    ELSE IF fv
    THEN delitem_node_fastview(D, delim, selfroot, fullkey, fullkey \o delim,
                               viewkeys(D, fv, FALSE, delim, selfroot, TRUE, TRUE, fullkey),
                               first)
    ELSE delitem_node_scan(D, {k \in DOMAIN D : StartsWith(k, fullkey \o delim)}, first)

\* a __delitem__ without the early return of nodel mode: the nodel properties
\* have to tell it from delitem
delitem_in_nodel(D, fv, nd, delim, rootpath, key, fullpath, first) ==
    delitem_fullkey(D, fv, delim, rootpath,
                    IF fullpath THEN key ELSE build_path(delim, rootpath, key, EmptyStr),
                    first)

\* fdict.__delitem__(key, fullpath)
delitem(D, fv, nd, delim, rootpath, key, fullpath, first) ==
    IF nd THEN Ok(D)
    ELSE delitem_fullkey(D, fv, delim, rootpath,
                         IF fullpath THEN key ELSE build_path(delim, rootpath, key, EmptyStr),
                         first)

(***************************************************************************)
(* Values handed to __setitem__ and update: a leaf payload, a plain nested *)
(* dict, or another fdict instance.  A nested dict is a function from keys *)
(* to entries, an entry being a payload or a nested dict.                  *)
(***************************************************************************)
EmptyMap == [k \in {} |-> 0]
MLeaf(v) == [isdict |-> FALSE, v |-> v, m |-> EmptyMap]
MDict(m) == [isdict |-> TRUE, v |-> 0, m |-> m]

Slash == <<"/">>

\* an fdict object that owns its dict
Instance(D, rootpath, delim, fv, nd) ==
    [d |-> D, rootpath |-> rootpath, delimiter |-> delim, fastview |-> fv, nodel |-> nd]
NoInstance == Instance(EmptyDict, EmptyStr, Slash, FALSE, FALSE)

VLeaf(v) == [kind |-> "leaf", v |-> v, m |-> EmptyMap, inst |-> NoInstance]
VDict(m) == [kind |-> "dict", v |-> 0, m |-> m, inst |-> NoInstance]
VFdict(i) == [kind |-> "fdict", v |-> 0, m |-> EmptyMap, inst |-> i]

\* fdict.flatkeys: the (flat key, payload) pairs of the nested dict M
RECURSIVE flat_pairs(_, _, _)
flat_pairs(prefix, M, sep) ==
    UNION { IF M[k].isdict
            THEN flat_pairs(prefix \o k \o sep, M[k].m, sep)
            ELSE {<<prefix \o k, M[k].v>>} : k \in DOMAIN M }

PairsToDict(P) ==
    [x \in {p[1] : p \in P} |-> Leaf((CHOOSE p \in P : p[1] = x)[2])]

flatkeys(M, sep) == PairsToDict(flat_pairs(EmptyStr, M, sep))

\* the items of the yielded keys vk, shortened by lpattern characters.  In
\* fastview mode a leaf named by a child-set but not stored makes
\* d.__getitem__(child) raise KeyError.
viewitems_of(D, vk, lpattern) ==
    [items |-> [x \in {Slice(k, lpattern, Len(k)) : k \in vk.keys \cap DOMAIN D} |->
                   D[CHOOSE k \in vk.keys \cap DOMAIN D : Slice(k, lpattern, Len(k)) = x]],
     err |-> IF vk.err # "none" THEN vk.err
             ELSE IF vk.keys \subseteq DOMAIN D THEN "none" ELSE "KeyError"]

\* fdict.viewitems(fullpath, nodes=False): the leaf items the generator
\* yields, as a dict, and the exception it raises on the way (if any)
viewitems(D, fv, nd, delim, selfroot, fullpath) ==
    viewitems_of(D, viewkeys(D, fv, nd, delim, selfroot, TRUE, FALSE, EmptyStr),
                 IF fullpath \/ Len(selfroot) = 0 THEN 0 ELSE Len(selfroot) + Len(delim))

\* fdict.__len__
fdict_len(D, fv, nd, delim, selfroot) ==
    IF Len(selfroot) = 0 /\ ~fv /\ ~nd THEN Cardinality(DOMAIN D)
    ELSE Cardinality(viewkeys(D, fv, nd, delim, selfroot, FALSE, FALSE, EmptyStr).keys)

\* the tail of fdict.__init__ for a user-supplied dict: metadata of the mode
fdict_init_flat(flat, delim, fv, nd) ==
    Instance(build_mode_metadata(flat, fv, nd, delim, DOMAIN flat), EmptyStr, delim, fv, nd)

\* fdict.__init__(d) for a user-supplied nested dict: flatten, then build the
\* metadata of the mode
fdict_init(M, delim, fv, nd) == fdict_init_flat(flatkeys(M, delim), delim, fv, nd)

\* flatkeys({key: value}) for an fdict value whose leaf items are it
wrap_items(key, it) ==
    [x \in {key \o Slash \o k : k \in DOMAIN it} |->
        it[CHOOSE k \in DOMAIN it : key \o Slash \o k = x]]

\* self.__class__({key: value}) for an fdict value: a default-mode fdict with
\* the default delimiter whose dict is flatkeys({key: value}); flatkeys walks
\* value.items(), the leaf items of the instance relative to its rootpath
fdict_init_wrap(key, i) ==
    Instance(wrap_items(key, viewitems(i.d, i.fastview, i.nodel, i.delimiter,
                                       i.rootpath, FALSE).items),
             EmptyStr, Slash, FALSE, FALSE)

(***************************************************************************)
(* update and __setitem__                                                  *)
(***************************************************************************)
\* the merge without the rebase under the rootpath
rebase_none(items, delim, rootpath) == items

\* the dict whose keys are rebased with self._build_path(k)
Rebase(items, delim, rootpath) ==
    [x \in {build_path(delim, rootpath, k, EmptyStr) : k \in DOMAIN items} |->
        items[CHOOSE k \in DOMAIN items : build_path(delim, rootpath, k, EmptyStr) = x]]

\* the merge and the metadata step of update, given d2items and d2keys
update_items(D, fv, nd, delim, rootpath, vi, d2keys) ==
    IF vi.err # "none" THEN Raise(D, vi.err)
    ELSE Ok(build_mode_metadata(
                DictUpdate(D, IF Len(rootpath) > 0 THEN Rebase(vi.items, delim, rootpath)
                              ELSE vi.items),
                fv, nd, delim, {build_path(delim, rootpath, k, EmptyStr) : k \in d2keys}))

\* update with the flattened plain dict
update_flat(D, fv, nd, delim, rootpath, flat) ==
    update_items(D, fv, nd, delim, rootpath, [items |-> flat, err |-> "none"], DOMAIN flat)

\* update with the fdict instance i
update_fdict(D, fv, nd, delim, rootpath, i) ==
    update_items(D, fv, nd, delim, rootpath,
                 viewitems(i.d, i.fastview, i.nodel, i.delimiter, i.rootpath, FALSE),
                 viewkeys(i.d, i.fastview, i.nodel, i.delimiter, i.rootpath,
                          FALSE, FALSE, EmptyStr).keys)

\* update without the test of the argument: a value that is no dict is
\* taken as a dict without items
update_unchecked(D, fv, nd, delim, rootpath, value) ==
    IF value.kind = "fdict" THEN update_fdict(D, fv, nd, delim, rootpath, value.inst)
    ELSE update_flat(D, fv, nd, delim, rootpath, flatkeys(value.m, delim))

\* fdict.update(d2)
update(D, fv, nd, delim, rootpath, value) ==
    IF value.kind = "fdict" THEN update_fdict(D, fv, nd, delim, rootpath, value.inst)
    ELSE IF value.kind = "dict"
    THEN update_flat(D, fv, nd, delim, rootpath, flatkeys(value.m, delim))
    ELSE Raise(D, "ValueError")

\* `if not value` for a dict or fdict value
IsEmptyValue(value) ==
    IF value.kind = "fdict"
    THEN fdict_len(value.inst.d, value.inst.fastview, value.inst.nodel,
                   value.inst.delimiter, value.inst.rootpath) = 0
    ELSE DOMAIN value.m = {}

\* the metadata step that follows an earlier step r, unless r raised
ThenMetadata(r, fv, nd, delim, fullkeys) ==
    IF r.err # "none" THEN r ELSE Ok(build_mode_metadata(r.d, fv, nd, delim, fullkeys))

\* __setitem__ of a dict: first delete the previous value.  Not fastview:
\* self.d.__delitem__(key) is given the key, not the full key.
setitem_dict_clear(D, fv, nd, delim, rootpath, key, fullkey, first) ==
    IF ~fv THEN
        IF fullkey \in DOMAIN D THEN DictDelItem(D, key) ELSE Ok(D)
    ELSE
        IF contains_fullkey(D, fv, nd, delim, rootpath, fullkey)
        THEN delitem(D, fv, nd, delim, rootpath, key, FALSE, first)
        ELSE Ok(D)

\* __setitem__ of an fdict: d2 = self.__class__({key: value}); self.update(d2);
\* then the metadata over the keys of d2
setitem_dict_merge(D, fv, nd, delim, rootpath, d2) ==
    ThenMetadata(update(D, fv, nd, delim, rootpath, VFdict(d2)), fv, nd, delim,
                 viewkeys(d2.d, d2.fastview, d2.nodel, d2.delimiter, d2.rootpath,
                          FALSE, FALSE, EmptyStr).keys)

\* __setitem__ of a plain dict: d2 = flatkeys({_build_path(prepend=key): value});
\* self.d.update(d2); then the metadata over the keys of d2
setitem_dict_flat(D, fv, nd, delim, d2) ==
    Ok(build_mode_metadata(DictUpdate(D, d2), fv, nd, delim, DOMAIN d2))

\* __setitem__ of a dict after the previous value was deleted (r0)
setitem_dict_store(r0, fv, nd, delim, rootpath, key, value) ==
    IF r0.err # "none" THEN r0
    ELSE IF IsEmptyValue(value) THEN r0
    ELSE IF value.kind = "fdict"
    THEN setitem_dict_merge(r0.d, fv, nd, delim, rootpath, fdict_init_wrap(key, value.inst))
    ELSE setitem_dict_flat(r0.d, fv, nd, delim,
             flatkeys([k \in {build_path(delim, rootpath, EmptyStr, key)} |-> MDict(value.m)],
                      delim))

\* the dict branch of fdict.__setitem__
setitem_dict(D, fv, nd, delim, rootpath, key, value, first) ==
    setitem_dict_store(
        setitem_dict_clear(D, fv, nd, delim, rootpath, key,
                           build_path(delim, rootpath, key, EmptyStr), first),
        fv, nd, delim, rootpath, key, value)

\* one round of `for parent in parents`: __delitem__(parentleaf) when the
\* parent holds a leaf; parentleaf is a full path, handed over as a key
\* relative to self.rootpath
delete_parent_leaf(r, delim, rootpath, parentleaf, first) ==
    IF r.err # "none" THEN r
    ELSE IF parentleaf \in DOMAIN r.d
    THEN delitem(r.d, TRUE, FALSE, delim, rootpath, parentleaf, FALSE, first)
    ELSE r

\* fastview __setitem__ of a leaf: delete every ancestor that holds a leaf
RECURSIVE delete_parent_leaves(_, _, _, _, _)
delete_parent_leaves(r, delim, rootpath, parents, first) ==
    IF Len(parents) = 0 THEN r
    ELSE delete_parent_leaves(
             delete_parent_leaf(r, delim, rootpath,
                                Slice(Head(parents), 0, Len(Head(parents)) - 1), first),
             delim, rootpath, Tail(parents), first)

\* self._build_metadata([fullkey]); self.d.__setitem__(fullkey, value)
setitem_leaf_store(r, delim, fullkey, value) ==
    IF r.err # "none" THEN r
    ELSE Ok(DictSet(build_metadata(r.d, delim, {fullkey}), fullkey, Leaf(value.v)))

\* the leaf branch of __setitem__ in fastview mode; the ancestors are computed
\* with the default delimiter of _get_all_parent_nodes
setitem_leaf_fastview(D, delim, rootpath, key, fullkey, value, first) ==
    setitem_leaf_store(
        delete_parent_leaves(
            IF (fullkey \o delim) \in DOMAIN D
            THEN delitem(D, TRUE, FALSE, delim, rootpath, key, FALSE, first)
            ELSE Ok(D),
            delim, rootpath, get_all_parent_nodes(fullkey, Slash), first),
        delim, fullkey, value)

\* a leaf assignment that replaces the subtree below the key in every mode
setitem_leaf_replacing(D, fv, nd, delim, rootpath, key, fullkey, value, first) ==
    Ok(DictSet(DictDrop(D, {k \in DOMAIN D : StartsWith(k, fullkey \o delim)}),
               fullkey, Leaf(value.v)))

\* the leaf branch of fdict.__setitem__ once the full key is built
setitem_leaf_fullkey(D, fv, nd, delim, rootpath, key, fullkey, value, first) ==
    IF fv THEN setitem_leaf_fastview(D, delim, rootpath, key, fullkey, value, first)
    ELSE IF nd THEN Ok(DictSet(build_metadata_nodel(D, delim, {fullkey}), fullkey, Leaf(value.v)))
    ELSE Ok(DictSet(D, fullkey, Leaf(value.v)))

\* the leaf branch of fdict.__setitem__
setitem_leaf(D, fv, nd, delim, rootpath, key, value, first) ==
    setitem_leaf_fullkey(D, fv, nd, delim, rootpath, key,
                         build_path(delim, rootpath, key, EmptyStr), value, first)

\* fdict.__setitem__
setitem(D, fv, nd, delim, rootpath, key, value, first) ==
    IF value.kind # "leaf"
    THEN setitem_dict(D, fv, nd, delim, rootpath, key, value, first)
    ELSE setitem_leaf(D, fv, nd, delim, rootpath, key, value, first)

(***************************************************************************)
(* extract, pop and popitem                                                *)
(***************************************************************************)
\* the dict of the extracted fdict: with a rootpath the items are taken as
\* the dict; without, the constructor flattens them and builds the metadata
\* of the mode
extract_dict(items, fv, nd, delim, keep) ==
    IF keep THEN items ELSE build_mode_metadata(items, fv, nd, delim, DOMAIN items)

\* extract() without the rebuild of the metadata
skip_metadata(D, fv, delim) == D

\* `if d2.fastview: d2._build_metadata()`
rebuild_metadata(D, fv, delim) == IF fv THEN build_metadata(D, delim, DOMAIN D) ELSE D

\* extract, given the items of the view
extract_items(vi, fv, nd, delim, selfroot, fullpath) ==
    [inst |-> Instance(rebuild_metadata(extract_dict(vi.items, fv, nd, delim,
                                                     Len(selfroot) > 0 /\ fullpath),
                                        fv, delim),
                       IF fullpath THEN selfroot ELSE EmptyStr, delim, fv, nd),
     err |-> vi.err]

\* fdict.extract(fullpath) of the fdict over D scoped at selfroot
extract(D, fv, nd, delim, selfroot, fullpath) ==
    extract_items(viewitems(D, fv, nd, delim, selfroot, fullpath),
                  fv, nd, delim, selfroot, fullpath)

\* what an operation returns: nothing ("none"), a stored value ("value"), the
\* default ("default"), an fdict ("fdict"), a boolean ("bool") or a nested
\* dict ("dict")
Ret(kind, value, inst) == [kind |-> kind, value |-> value, inst |-> inst]

\* truth value of a stored payload
Truthy(val) == val.kind # "leaf" \/ val.v # 0

\* result of an operation that returns an object
Returns(D, e, ret) == [d |-> D, err |-> e, ret |-> ret]

\* pop of a leaf: res is the stored value, r the dict after the deletion
pop_leaf(res, r) ==
    Returns(r.d, r.err, IF r.err # "none" THEN Ret("none", NoneVal, NoInstance)
                        ELSE IF Truthy(res) THEN Ret("value", res, NoInstance)
                        ELSE Ret("default", NoneVal, NoInstance))

\* pop of a node, after `self.__delitem__(fullkey, fullpath=True)`
pop_node_deleted(r, inst) ==
    Returns(r.d, r.err, IF r.err # "none" THEN Ret("none", NoneVal, NoInstance)
                        ELSE Ret("fdict", NoneVal, inst))

\* pop of a node: `if res:` is the length of the extracted fdict
pop_node_res(D, fv, nd, delim, rootpath, fullkey, inst, nonempty, first) ==
    IF nonempty
    THEN pop_node_deleted(delitem(D, fv, nd, delim, rootpath, fullkey, TRUE, first), inst)
    ELSE Returns(D, "none", Ret("default", NoneVal, NoInstance))

\* pop of a node: x is self.__getitem__(k).extract(fullpath=fullpath)
pop_node(D, fv, nd, delim, rootpath, fullkey, x, first) ==
    IF x.err # "none" THEN Returns(D, x.err, Ret("none", NoneVal, NoInstance))
    ELSE pop_node_res(D, fv, nd, delim, rootpath, fullkey, x.inst,
                      fdict_len(x.inst.d, fv, nd, delim, x.inst.rootpath) > 0, first)

\* fdict.pop once the full key is built
pop_fullkey(D, fv, nd, delim, rootpath, fullkey, fullpath, first) ==
    IF fullkey \in DOMAIN D THEN
        pop_leaf(D[fullkey],
                 IF ~fv THEN Ok(DictDrop(D, {fullkey}))
                 ELSE delitem(D, fv, nd, delim, rootpath, fullkey, TRUE, first))
    ELSE IF fv /\ (fullkey \o delim) \notin DOMAIN D
    THEN Returns(D, "none", Ret("default", NoneVal, NoInstance))
    ELSE pop_node(D, fv, nd, delim, rootpath, fullkey,
                  extract(D, fv, nd, delim, fullkey, fullpath), first)

\* fdict.pop(k, d=None, fullpath): the dict afterwards, the exception and the
\* returned object
pop(D, fv, nd, delim, rootpath, k, fullpath, first) ==
    pop_fullkey(D, fv, nd, delim, rootpath, build_path(delim, rootpath, k, EmptyStr),
                fullpath, first)

\* outcome of popitem: the dict afterwards, the exception, the pair returned
Popped(D, e, k, ret) == [d |-> D, err |-> e, ret |-> ret, key |-> k]

\* self.d.popitem(): which entry is removed depends on the dict order of the
\* running interpreter, so every entry is a possible pick
dict_popitem(D) ==
    IF DOMAIN D = {} THEN {Popped(D, "KeyError", EmptyStr, Ret("none", NoneVal, NoInstance))}
    ELSE {Popped(DictDrop(D, {k}), "none", k, Ret("value", D[k], NoInstance)) : k \in DOMAIN D}

\* fastview popitem after `self.__delitem__(k)`
popitem_deleted(r, k, v) ==
    Popped(r.d, r.err, k, IF r.err # "none" THEN Ret("none", NoneVal, NoInstance)
                          ELSE Ret("value", v, NoInstance))

\* fastview popitem: the first item of the viewitems generator is any leaf
\* the traversal can reach; when the traversal can raise, or yields nothing,
\* KeyError
popitem_fastview(D, delim, rootpath, vi, first) ==
    {popitem_deleted(delitem(D, TRUE, FALSE, delim, rootpath, k, FALSE, first),
                     k, vi.items[k]) : k \in DOMAIN vi.items}
    \cup (IF vi.err # "none" \/ DOMAIN vi.items = {}
          THEN {Popped(D, "KeyError", EmptyStr, Ret("none", NoneVal, NoInstance))} ELSE {})

\* fdict.popitem(): the possible outcomes
popitem(D, fv, nd, delim, rootpath, first) ==
    IF ~fv THEN dict_popitem(D)
    ELSE popitem_fastview(D, delim, rootpath,
                          viewitems(D, fv, nd, delim, rootpath, FALSE), first)

(***************************************************************************)
(* copy, __eq__ and to_dict_nested                                         *)
(***************************************************************************)
\* the dict of fcopy after __init__(d=self.d.copy(), rootpath=...): with a
\* rootpath the shallow copy is taken as it is; without, it is flattened
\* (every value is kept, none being a mapping) and the metadata of the mode
\* is built over all its keys
copy_dict(D, fv, nd, delim, rootpath) ==
    IF Len(rootpath) > 0 THEN D ELSE build_mode_metadata(D, fv, nd, delim, DOMAIN D)

\* copy() without the clone loop: every child-set stays shared
copy_unclone(D, fv, delim) == {k \in DOMAIN D : D[k].kind = "set"}

\* the keys of fcopy whose set object is still the one of self after the
\* clone loop, which clones the values of the keys ending with the delimiter
copy_shared(D, fv, delim) ==
    {k \in DOMAIN D : D[k].kind = "set" /\ ~(fv /\ EndsWith(k, delim))}

\* copy() whose clone loop takes the child-sets out of self.d instead of
\* copying them
copy_moving(D, fv, nd, delim, rootpath) ==
    [inst |-> Instance(copy_dict(D, fv, nd, delim, rootpath), rootpath, delim, fv, nd),
     orig |-> [k \in {x \in DOMAIN D : ~(fv /\ D[x].kind = "set")} |-> D[k]],
     shared |-> {},
     err |-> "none"]

\* fdict.copy(): the new fdict, the dict of self afterwards, the shared sets.
\* d.copy() is shallow, so until the clone loop the child-sets of fcopy are
\* the set objects of self, and what _build_metadata adds to them in __init__
\* is added to the sets of self
copy(D, fv, nd, delim, rootpath) ==
    [inst |-> Instance(copy_dict(D, fv, nd, delim, rootpath), rootpath, delim, fv, nd),
     orig |-> IF fv /\ Len(rootpath) = 0
              THEN [k \in DOMAIN D |-> IF D[k].kind = "set"
                                       THEN copy_dict(D, fv, nd, delim, rootpath)[k]
                                       ELSE D[k]]
              ELSE D,
     shared |-> copy_shared(D, fv, delim),
     err |-> "none"]

\* dict(d) of a sequence of (key, value) pairs: the last pair of a key wins
dict_pairs(q) ==
    [k \in {q[i][1] : i \in DOMAIN q} |-> q[SetMax({i \in DOMAIN q : q[i][1] = k})][2]]

\* fdict(d=value, delimiter=delim, fastview=fv, nodel=nd) without a rootpath:
\* an fdict gives `d.copy().d` as it is, anything else is made a dict,
\* flattened, and given the metadata of the mode
fdict_new(value, delim, fv, nd) ==
    IF value.kind = "fdict"
    THEN Instance(copy(value.inst.d, value.inst.fastview, value.inst.nodel,
                       value.inst.delimiter, value.inst.rootpath).inst.d,
                  EmptyStr, delim, fv, nd)
    ELSE IF value.kind = "pairs" THEN fdict_init(dict_pairs(value.m), delim, fv, nd)
    ELSE fdict_init(value.m, delim, fv, nd)

\* the loop of __eq__ over d2items: every item of d2 is stored in self.d at
\* the key rebased under the rootpath of self, with an equal value
eq_items(A, items) ==
    \A k \in DOMAIN items :
        /\ build_path(A.delimiter, A.rootpath, k, EmptyStr) \in DOMAIN A.d
        /\ A.d[build_path(A.delimiter, A.rootpath, k, EmptyStr)] = items[k]

\* __eq__ with an fdict when the dicts are not compared directly: both lengths
\* are taken, they decide only when the modes are the same, then the items of d2
\* (relative to its rootpath, leaves only) are looked up in self.  The outcome
\* is the answer and the exception raised (if any).
eq_fdict(A, B, lenA, lenB, vi) ==
    IF lenA.err # "none" THEN [eq |-> FALSE, err |-> lenA.err]
    ELSE IF lenB.err # "none" THEN [eq |-> FALSE, err |-> lenB.err]
    ELSE IF Cardinality(lenA.keys) # Cardinality(lenB.keys)
            /\ A.fastview = B.fastview /\ A.nodel = B.nodel
    THEN [eq |-> FALSE, err |-> "none"]
    ELSE IF vi.err # "none" THEN [eq |-> FALSE, err |-> vi.err]
    ELSE [eq |-> eq_items(A, vi.items), err |-> "none"]

\* the keys len() counts: all the keys of the dict for a default-mode root,
\* else the keys viewkeys() yields
len_keys(A) ==
    IF Len(A.rootpath) = 0 /\ ~A.fastview /\ ~A.nodel THEN [keys |-> DOMAIN A.d, err |-> "none"]
    ELSE viewkeys(A.d, A.fastview, A.nodel, A.delimiter, A.rootpath, FALSE, FALSE, EmptyStr)

\* fdict.__eq__(d2) of the fdict A with the value d2; a plain dict is
\* flattened, then the lengths and the items are compared
fdict_eq(A, value) ==
    IF value.kind = "leaf" THEN [eq |-> FALSE, err |-> "none"]
    ELSE IF value.kind = "fdict" /\ Len(A.rootpath) = 0
            /\ A.fastview = value.inst.fastview /\ A.nodel = value.inst.nodel
    THEN [eq |-> A.d = value.inst.d, err |-> "none"]
    ELSE IF value.kind = "fdict"
    THEN eq_fdict(A, value.inst, len_keys(A), len_keys(value.inst),
                  viewitems(value.inst.d, value.inst.fastview, value.inst.nodel,
                            value.inst.delimiter, value.inst.rootpath, FALSE))
    ELSE IF len_keys(A).err # "none" THEN [eq |-> FALSE, err |-> len_keys(A).err]
    ELSE [eq |-> /\ Cardinality(len_keys(A).keys)
                      = Cardinality(DOMAIN flatkeys(value.m, A.delimiter))
                 /\ eq_items(A, flatkeys(value.m, A.delimiter)),
          err |-> "none"]

\* to_dict_nested, one leaf: walk d2 down the parents of k, creating the
\* missing nodes, and set the leaf.  A parent that holds a payload makes the
\* walk fail (`parent in d2sub` or `d2sub[k] = v` on a payload: TypeError).
RECURSIVE nested_set(_, _, _, _)
\* the walk without the nodes: the leaf is set in d2 itself
nested_lost(m, parent, r) == r

nested_under(m, parent, r) ==
    IF r.err # "none" THEN [m |-> m, err |-> r.err]
    ELSE [m |-> [y \in DOMAIN m \cup {parent} |-> IF y = parent THEN MDict(r.m) ELSE m[y]],
          err |-> "none"]

nested_down(m, parent, rest, v, delim) ==
    IF parent \notin DOMAIN m
    THEN nested_under(m, parent, nested_set(EmptyMap, rest, v, delim))
    ELSE IF m[parent].isdict
    THEN nested_under(m, parent, nested_set(m[parent].m, rest, v, delim))
    ELSE [m |-> m, err |-> "TypeError"]

nested_set(m, k, v, delim) ==
    IF StrFind(k, delim, 0) = -1
    THEN [m |-> [y \in DOMAIN m \cup {k} |-> IF y = k THEN MLeaf(v) ELSE m[y]],
          err |-> "none"]
    ELSE nested_down(m, Slice(k, 0, StrFind(k, delim, 0)),
                     Slice(k, StrFind(k, delim, 0) + 1, Len(k)), v, delim)

\* the loop of to_dict_nested over the items still to come: the order is the
\* iteration order of the backing dict (or of the fastview worklist), so
\* every order is a possible one
RECURSIVE nested_fold(_, _, _, _)
nested_fold(m, items, todo, delim) ==
    IF todo = {} THEN {[m |-> m, err |-> "none"]}
    ELSE UNION {UNION {IF r.err # "none" THEN {r}
                       ELSE nested_fold(r.m, items, todo \ {k}, delim) :
                          r \in {nested_set(m, k, items[k].v, delim)}} :
                   k \in todo}

\* fdict.to_dict_nested(): the possible outcomes, over the items of the view
to_dict_nested(D, fv, nd, delim, selfroot) ==
    IF viewitems(D, fv, nd, delim, selfroot, FALSE).err # "none"
    THEN {[m |-> EmptyMap, err |-> viewitems(D, fv, nd, delim, selfroot, FALSE).err]}
    ELSE nested_fold(EmptyMap, viewitems(D, fv, nd, delim, selfroot, FALSE).items,
                     DOMAIN viewitems(D, fv, nd, delim, selfroot, FALSE).items, delim)

(***************************************************************************)
(* Inputs of the operations                                                *)
(***************************************************************************)
\* sequences of 1..n segment names, and the path string they spell
SegSeqs(n) == UNION {[1..m -> Segments] : m \in 1..n}
PathStr(delim, q) == StrJoin(delim, [i \in 1..Len(q) |-> <<q[i]>>])

\* number of segments of a well-formed path
RECURSIVE Depth(_, _)
Depth(path, delim) ==
    IF Len(path) = 0 THEN 0
    ELSE IF StrFind(path, delim, 0) = -1 THEN 1
    ELSE 1 + Depth(Slice(path, StrFind(path, delim, 0) + Len(delim), Len(path)), delim)

\* the full paths an operation may name: every path shorter than MaxDepth,
\* and the paths of MaxDepth segments below the first segment name
Paths == {q \in SegSeqs(MaxDepth) : Len(q) = MaxDepth => q[1] = "a"}

\* the (scope, key) pairs an operation may name: a view scoped at the first
\* i segments of a path and the key made of the others
ScopeKeys ==
    UNION {{<<PathStr(Slash, SubSeq(q, 1, i)), PathStr(Slash, SubSeq(q, i + 1, Len(q)))>> :
               i \in 0..(Len(q) - 1)} : q \in Paths}

\* the scopes of the views
Scopes == {EmptyStr} \cup {PathStr(Slash, q) : q \in SegSeqs(MaxDepth - 1)}

\* nested dicts of depth <= n over the keys MapKeys holding the payload MapValue
MapKeys == {<<s>> : s \in Segments}
MapValues == {1}
\* number of keys (at all levels together) of a nested dict
MaxMapEntries == 2

RECURSIVE NestedDicts(_)
NestedDicts(n) ==
    IF n = 0 THEN {EmptyMap}
    ELSE UNION {[K -> {MLeaf(v) : v \in MapValues} \cup {MDict(m) : m \in NestedDicts(n - 1)}] :
                   K \in SUBSET MapKeys}

RECURSIVE MapEntries(_)
MapEntries(M) ==
    IF DOMAIN M = {} THEN 0
    ELSE LET k == CHOOSE x \in DOMAIN M : TRUE
         IN 1 + (IF M[k].isdict THEN MapEntries(M[k].m) ELSE 0)
              + MapEntries([x \in (DOMAIN M) \ {k} |-> M[x]])

\* no empty dict inside a nested dict
RECURSIVE NoEmptySubs(_)
NoEmptySubs(M) ==
    \A k \in DOMAIN M : M[k].isdict => (DOMAIN M[k].m # {} /\ NoEmptySubs(M[k].m))

\* the plain nested dicts handed to the constructor, __setitem__ and update
Mappings == {M \in NestedDicts(MaxDepth - 1) : MapEntries(M) <= MaxMapEntries /\ NoEmptySubs(M)}

\* the modes of a store: (fastview, nodel)
Modes == {<<FALSE, FALSE>>, <<TRUE, FALSE>>, <<FALSE, TRUE>>}

\* the fdict instances handed to __setitem__ and update: constructed from a
\* nested dict in default or fastview mode
InstanceMappings == {M \in Mappings : DOMAIN M = {<<"a">>}}
Instances ==
    {fdict_init(EmptyMap, Slash, FALSE, FALSE)} \cup
    {fdict_init(M, Slash, md[1], md[2]) :
        M \in InstanceMappings, md \in {<<FALSE, FALSE>>, <<TRUE, FALSE>>}}

\* the dict and fdict values an assignment or an update may be given
DictValues == {VDict(M) : M \in Mappings} \cup {VFdict(i) : i \in Instances}

\* depth of the deepest leaf a value adds below the key it is assigned to
ValueDepth(value) ==
    IF value.kind = "dict"
    THEN SetMax({0} \cup {Depth(k, Slash) : k \in DOMAIN flatkeys(value.m, Slash)})
    ELSE IF value.kind = "fdict"
    THEN SetMax({0} \cup {Depth(k, value.inst.delimiter) :
             k \in viewkeys(value.inst.d, value.inst.fastview, value.inst.nodel,
                            value.inst.delimiter, value.inst.rootpath,
                            FALSE, FALSE, EmptyStr).keys})
    ELSE 0

\* the assignments and updates that keep every full path within MaxDepth
SetLeafInputs == ScopeKeys \X {VLeaf(v) : v \in LeafValues}
SetDictInputs ==
    {x \in ScopeKeys \X DictValues :
        Depth(x[1][1], Slash) + Depth(x[1][2], Slash) + ValueDepth(x[2]) <= MaxDepth}
UpdateInputs ==
    {x \in Scopes \X (DictValues \cup {VLeaf(1)}) :
        Depth(x[1], Slash) + ValueDepth(x[2]) <= MaxDepth}

\* the orders of delete_all that can differ on the dict D: the loop can only
\* meet a key that is not stored when a child-set names one
Firsts(D) ==
    IF \A k \in DOMAIN D : D[k].ch \subseteq DOMAIN D THEN {TRUE} ELSE BOOLEAN

\* the nested dicts a store is constructed from
InitMappings == {M \in Mappings : DOMAIN M # {} => <<"a">> \in DOMAIN M}

(***************************************************************************)
(* State: the heap of dict objects, the root fdict over heap[RootRef] with *)
(* its mode and delimiter, and the last operation                          *)
(***************************************************************************)
Refs == {"root", "other"}
RootRef == "root"
RootHandle == [ref |-> RootRef, rootpath |-> EmptyStr]

\* the second fdict object of a run, the one copy() or extract() returned:
\* its dict is heap[MadeRef]; `prev` is that dict before the last call
MadeRef == "other"

\* the view S[scope]: an fdict over the same dict object, rooted at scope
ViewAt(scope) == IF Len(scope) = 0 THEN RootHandle ELSE getitem_view(RootHandle, scope)

\* fdict(d=M, fastview=.., nodel=..): the store constructed from a nested dict
Init ==
    /\ \E md \in Modes, M \in InitMappings :
           /\ fastview = md[1] /\ nodel = md[2]
           /\ heap = [r \in Refs |-> IF r = RootRef
                                     THEN fdict_init(M, Slash, md[1], md[2]).d
                                     ELSE EmptyDict]
           /\ prev = fdict_init(M, Slash, md[1], md[2]).d
    /\ delimiter = Slash
    /\ last = [op |-> "init", ref |-> RootRef, rootpath |-> EmptyStr, key |-> EmptyStr,
               value |-> VLeaf(0), fullpath |-> FALSE, err |-> "none",
               ret |-> Ret("none", NoneVal, NoInstance)]
    /\ history = << >>
    /\ made = [exists |-> FALSE, rootpath |-> EmptyStr, prev |-> EmptyDict, shared |-> {}]
    /\ shelf = [open |-> FALSE, kwargs |-> << >>, filename |-> <<"tmp", 0>>,
                autosync |-> FALSE, tmp |-> 0, opened |-> 0, syncs |-> 0,
                synced |-> EmptyDict, file |-> EmptyDict,
                view |-> [filename |-> <<"tmp", 0>>, autosync |-> FALSE, tmp |-> 0,
                          opened |-> 0]]

\* the operation op was called through the handle h; r holds the dict it left
\* and the exception it raised (or "none"), ret is what it returned
Called(op, h, key, value, fullpath, r, ret) ==
    /\ heap' = [heap EXCEPT ![h.ref] = r.d]
    /\ last' = [op |-> op, ref |-> h.ref, rootpath |-> h.rootpath, key |-> key,
                value |-> value, fullpath |-> fullpath, err |-> r.err, ret |-> ret]
    /\ prev' = heap[RootRef]
    /\ history' = Append(history, op)
    /\ made' = [made EXCEPT !.prev = heap[MadeRef]]
    /\ UNCHANGED <<fastview, nodel, delimiter, shelf>>

\* one more operation of the run, on inputs within the bounds
\* S[scope][key] = value, a leaf value
SetLeafStep ==
    /\ Len(history) < MaxOps
    /\ \E x \in SetLeafInputs, first \in Firsts(heap[RootRef]) :
           Called("setleaf", ViewAt(x[1][1]), x[1][2], x[2], FALSE,
                  setitem(heap[RootRef], fastview, nodel, delimiter,
                          ViewAt(x[1][1]).rootpath, x[1][2], x[2], first),
                  Ret("none", NoneVal, NoInstance))

\* S[scope][key] = value, a dict or an fdict
SetDictStep ==
    /\ Len(history) < MaxOps
    /\ \E x \in SetDictInputs, first \in Firsts(heap[RootRef]) :
           Called("setdict", ViewAt(x[1][1]), x[1][2], x[2], FALSE,
                  setitem(heap[RootRef], fastview, nodel, delimiter,
                          ViewAt(x[1][1]).rootpath, x[1][2], x[2], first),
                  Ret("none", NoneVal, NoInstance))

\* del S[scope][key]
DelStep ==
    /\ Len(history) < MaxOps
    /\ \E sk \in ScopeKeys, first \in Firsts(heap[RootRef]) :
           Called("del", ViewAt(sk[1]), sk[2], VLeaf(0), FALSE,
                  delitem(heap[RootRef], fastview, nodel, delimiter,
                          ViewAt(sk[1]).rootpath, sk[2], FALSE, first),
                  Ret("none", NoneVal, NoInstance))

\* S[scope].update(value)
UpdateStep ==
    /\ Len(history) < MaxOps
    /\ \E x \in UpdateInputs :
           Called("update", ViewAt(x[1]), EmptyStr, x[2], FALSE,
                  update(heap[RootRef], fastview, nodel, delimiter,
                         ViewAt(x[1]).rootpath, x[2]),
                  Ret("none", NoneVal, NoInstance))

\* S[scope].pop(key, fullpath=fullpath)
PopStep ==
    /\ Len(history) < MaxOps
    /\ \E sk \in ScopeKeys, fullpath \in BOOLEAN, first \in Firsts(heap[RootRef]) :
           \E r \in {pop(heap[RootRef], fastview, nodel, delimiter,
                         ViewAt(sk[1]).rootpath, sk[2], fullpath, first)} :
               Called("pop", ViewAt(sk[1]), sk[2], VLeaf(0), fullpath, r, r.ret)

\* S[scope].popitem()
PopItemStep ==
    /\ Len(history) < MaxOps
    /\ \E scope \in Scopes, first \in Firsts(heap[RootRef]) :
           \E r \in popitem(heap[RootRef], fastview, nodel, delimiter,
                            ViewAt(scope).rootpath, first) :
               Called("popitem", ViewAt(scope), r.key, VLeaf(0), FALSE, r, r.ret)

Next ==
    \/ SetLeafStep
    \/ SetDictStep
    \/ DelStep
    \/ UpdateStep
    \/ PopStep
    \/ PopItemStep

Spec == Init /\ [][Next]_vars

(***************************************************************************)
(* Runs with a second fdict object: copy() or extract() of a view of the   *)
(* root makes it, and assignments, deletes and updates go through the      *)
(* views of the root or through the made fdict                             *)
(***************************************************************************)
\* copy()/extract() through the view h returned the fdict inst (or raised
\* err) and left the dict orig behind h; the sets named by shared are one
\* object in both dicts
Made(op, h, fullpath, inst, err, orig, shared) ==
    /\ heap' = [heap EXCEPT ![h.ref] = orig,
                            ![MadeRef] = IF err = "none" THEN inst.d ELSE @]
    /\ made' = IF err = "none"
               THEN [exists |-> TRUE, rootpath |-> inst.rootpath,
                     prev |-> heap[MadeRef], shared |-> shared]
               ELSE [made EXCEPT !.prev = heap[MadeRef]]
    /\ last' = [op |-> op, ref |-> h.ref, rootpath |-> h.rootpath, key |-> EmptyStr,
                value |-> VLeaf(0), fullpath |-> fullpath, err |-> err,
                ret |-> IF err = "none" THEN Ret("fdict", NoneVal, inst)
                        ELSE Ret("none", NoneVal, NoInstance)]
    /\ prev' = heap[RootRef]
    /\ history' = Append(history, op)
    /\ UNCHANGED <<fastview, nodel, delimiter, shelf>>

\* the (fdict, key) pairs an operation may name: a view of the root with a
\* key, or the made fdict with a key
Targets ==
    {<<ViewAt(sk[1]), sk[2]>> : sk \in ScopeKeys} \cup
    (IF made.exists
     THEN {<<[ref |-> MadeRef, rootpath |-> made.rootpath], PathStr(Slash, q)>> :
              q \in SegSeqs(MaxDepth - 1)}
     ELSE {})

\* the values assigned in these runs
StoreValues == {VLeaf(0), VDict(EmptyMap)} \cup {VDict(M) : M \in InstanceMappings}

\* the view S2['a'] of an fdict constructed from {'a': M}
ViewOf(M, md) ==
    [fdict_init([x \in {<<"a">>} |-> MDict(M)], Slash, md[1], md[2]) EXCEPT !.rootpath = <<"a">>]

\* the values merged in these runs: for each of a few contents, the nested
\* dict itself, the flat dict with delimiter-joined keys, an fdict of any
\* mode constructed from it, the view S2['a'] of an fdict constructed from
\* {'a': content}, and the extracts of that view with full and relative keys
UpdateValues ==
    {VLeaf(1), VDict(EmptyMap)}
    \cup {VDict(M) : M \in InstanceMappings}
    \cup {VDict([k \in DOMAIN flatkeys(M, Slash) |-> MLeaf(flatkeys(M, Slash)[k].v)]) :
             M \in InstanceMappings}
    \cup {VFdict(fdict_init(M, Slash, md[1], md[2])) : M \in InstanceMappings, md \in Modes}
    \cup {VFdict(ViewOf(M, md)) : M \in InstanceMappings, md \in Modes}
    \cup {VFdict(extract(ViewOf(M, md).d, md[1], md[2], Slash, <<"a">>, fullpath).inst) :
             M \in InstanceMappings, md \in Modes, fullpath \in BOOLEAN}

\* S[scope].copy()
CopyStep ==
    /\ Len(history) < MaxOps
    /\ \E scope \in Scopes \ DOMAIN heap[RootRef] :
           \E c \in {copy(heap[RootRef], fastview, nodel, delimiter, scope)} :
               Made("copy", ViewAt(scope), FALSE, c.inst, c.err, c.orig, c.shared)

\* S[scope].extract(fullpath)
ExtractStep ==
    /\ Len(history) < MaxOps
    /\ \E scope \in Scopes \ DOMAIN heap[RootRef], fullpath \in BOOLEAN :
           \E x \in {extract(heap[RootRef], fastview, nodel, delimiter, scope, fullpath)} :
               Made("extract", ViewAt(scope), fullpath, x.inst, x.err, heap[RootRef], {})

\* h[key] = value, del h[key], h.update(value) through any of the two fdicts
SetOnStep ==
    /\ Len(history) < MaxOps
    /\ \E t \in Targets, value \in StoreValues :
           \E first \in Firsts(heap[t[1].ref]) :
               Called(IF value.kind = "leaf" THEN "setleaf" ELSE "setdict",
                      t[1], t[2], value, FALSE,
                      setitem(heap[t[1].ref], fastview, nodel, delimiter,
                              t[1].rootpath, t[2], value, first),
                      Ret("none", NoneVal, NoInstance))

DelOnStep ==
    /\ Len(history) < MaxOps
    /\ \E t \in Targets :
           \E first \in Firsts(heap[t[1].ref]) :
               Called("del", t[1], t[2], VLeaf(0), FALSE,
                      delitem(heap[t[1].ref], fastview, nodel, delimiter,
                              t[1].rootpath, t[2], FALSE, first),
                      Ret("none", NoneVal, NoInstance))

UpdateOnStep ==
    /\ Len(history) < MaxOps
    /\ \E h \in {t[1] : t \in Targets}, value \in UpdateValues :
           Called("update", h, EmptyStr, value, FALSE,
                  update(heap[h.ref], fastview, nodel, delimiter, h.rootpath, value),
                  Ret("none", NoneVal, NoInstance))

NextStores ==
    \/ CopyStep
    \/ ExtractStep
    \/ SetOnStep
    \/ DelOnStep
    \/ UpdateOnStep

SpecStores == Init /\ [][NextStores]_vars

(***************************************************************************)
(* Runs of the operations that only read: a view of the root is compared   *)
(* with a plain dict or with another fdict, and a nested dict is put into  *)
(* a new fdict and converted back                                          *)
(***************************************************************************)
\* the values a view is compared with: nested dicts, a leaf, fdicts
\* constructed in any mode from a nested dict, and their views S2['a'] where
\* S2['a'] is a view
EqOperands ==
    {VDict(M) : M \in Mappings} \cup {VLeaf(1)}
    \cup {VFdict(fdict_init(M, Slash, md[1], md[2])) :
             M \in InstanceMappings \cup {EmptyMap}, md \in Modes}
    \cup {VFdict([fdict_init(M, Slash, md[1], md[2]) EXCEPT !.rootpath = <<"a">>]) :
             M \in {X \in InstanceMappings : X[<<"a">>].isdict}, md \in Modes}

\* the nested dicts put into a new fdict: with and without empty dicts
\* inside, and flat dicts whose keys are delimiter-joined paths
NestedInputs ==
    {M \in NestedDicts(MaxDepth - 1) : MapEntries(M) <= MaxMapEntries + 1}
    \cup UNION {[K -> {MLeaf(v) : v \in MapValues}] :
                  K \in {X \in SUBSET {PathStr(Slash, q) : q \in SegSeqs(MaxDepth - 1)} :
                            Cardinality(X) \in 1..MaxMapEntries}}

\* S[scope] == value
EqStep ==
    /\ Len(history) < MaxReads
    /\ \E scope \in Scopes \ DOMAIN heap[RootRef], value \in EqOperands :
           \E r \in {fdict_eq(Instance(heap[RootRef], ViewAt(scope).rootpath,
                                       delimiter, fastview, nodel), value)} :
               Called("eq", ViewAt(scope), EmptyStr, value, FALSE,
                      [d |-> heap[RootRef], err |-> r.err], Ret("bool", r.eq, NoInstance))

\* S[scope] != value: __ne__ is `not self == d2`
NeStep ==
    /\ Len(history) < MaxReads
    /\ \E scope \in Scopes \ DOMAIN heap[RootRef], value \in EqOperands :
           \E r \in {fdict_eq(Instance(heap[RootRef], ViewAt(scope).rootpath,
                                       delimiter, fastview, nodel), value)} :
               Called("ne", ViewAt(scope), EmptyStr, value, FALSE,
                      [d |-> heap[RootRef], err |-> r.err], Ret("bool", ~r.eq, NoInstance))

\* fdict(M, fastview=.., nodel=..).to_dict_nested() on a new object
RoundTripStep ==
    /\ Len(history) < MaxReads
    /\ \E M \in NestedInputs :
           \E r \in to_dict_nested(fdict_init(M, Slash, fastview, nodel).d,
                                    fastview, nodel, Slash, EmptyStr) :
               Called("roundtrip", RootHandle, EmptyStr, VDict(M), FALSE,
                      [d |-> heap[RootRef], err |-> r.err], Ret("dict", r.m, NoInstance))

\* fdict(value, fastview=.., nodel=..): a new object from a nested or a flat
\* dict, from a sequence of one or two pairs, or from an fdict or a view
ConstructStep ==
    /\ Len(history) < MaxReads
    /\ \E md \in Modes,
          value \in {VDict(M) : M \in NestedInputs}
                    \cup {v \in EqOperands : v.kind = "fdict"}
                    \cup {[kind |-> "pairs", v |-> 0, m |-> q, inst |-> NoInstance] :
                             q \in UNION {[1..n -> {PathStr(Slash, x) : x \in SegSeqs(MaxDepth - 1)}
                                                   \X {MLeaf(v) : v \in LeafValues}] :
                                             n \in 1..2}} :
           Called("construct", RootHandle, EmptyStr, value, FALSE,
                  [d |-> heap[RootRef], err |-> "none"],
                  Ret("fdict", NoneVal, fdict_new(value, Slash, md[1], md[2])))

\* the static methods of the path engine on a path of 0..MaxDepth segments
\* joined by delim, a leaf path or a node path (ending with delim), and
\* _build_path of an fdict rooted at scope on that path as its key; the
\* delimiter is the default one, another character, or two characters
PathStep ==
    /\ Len(history) < MaxReads
    /\ \E delim \in {Slash, <<".">>, <<":", ":">>} :
       \E scope \in {EmptyStr} \cup {PathStr(delim, q) : q \in SegSeqs(MaxDepth - 1)},
          path \in {EmptyStr} \cup UNION {{PathStr(delim, q), PathStr(delim, q) \o delim} :
                                            q \in SegSeqs(MaxDepth)} :
           Called("path", [ref |-> RootRef, rootpath |-> scope], path, VLeaf(0), FALSE,
                  [d |-> heap[RootRef], err |-> "none"],
                  Ret("paths",
                      [delimiter |-> delim,
                       parents |-> get_all_parent_nodes(path, delim),
                       parent |-> get_parent_node(path, delim),
                       nested |-> get_all_parent_nodes_nested(path, delim),
                       built |-> build_path(delim, scope, path, EmptyStr)],
                      NoInstance))

NextReads ==
    \/ EqStep
    \/ NeStep
    \/ RoundTripStep
    \/ ConstructStep
    \/ PathStep

SpecReads == Init /\ [][NextReads]_vars

(***************************************************************************)
(* sfdict: the root fdict kept in a shelf on a file.  shelf.file is what   *)
(* the file holds (what a second handle on it reads), shelf.synced what    *)
(* the store held when sync() last ran, shelf.view the options of the last *)
(* view that subscripting made.                                            *)
(***************************************************************************)
\* number of operations of a run on a persistent store, the opening included
MaxShelfOps == 3
\* number of path segments of the longest full path assigned on it
MaxShelfDepth == 2

\* sfdict.__init__ with the keyword arguments kwargs and the given rootpath,
\* when sh.tmp temporary names were generated and sh.opened backends opened
\* so far: the filename and autosync of the new object, and the counters
sfdict_init(kwargs, rootpath, sh) ==
    [filename |-> IF "filename" \in DOMAIN kwargs THEN kwargs["filename"]
                  ELSE <<"tmp", sh.tmp + 1>>,
     autosync |-> IF "autosync" \in DOMAIN kwargs THEN kwargs["autosync"] ELSE FALSE,
     tmp |-> IF "filename" \in DOMAIN kwargs THEN sh.tmp ELSE sh.tmp + 1,
     opened |-> IF Len(rootpath) = 0 THEN sh.opened + 1 ELSE sh.opened]

\* an assignment that never syncs
sync_never(sh, D, on) == sh

\* `if self.autosync: self.sync()`, and sync() itself (on = TRUE): the
\* backend commits the store D to the file
sync(sh, D, on) ==
    IF on THEN [sh EXCEPT !.syncs = @ + 1, !.synced = D, !.file = D] ELSE sh

\* S = sfdict(d, fastview=.., nodel=.., **kwargs) over a new file: the shelf
\* is opened, filled with the flattened d and synced
OpenStep ==
    /\ ~shelf.open
    /\ Len(history) < MaxShelfOps
    /\ \E K \in SUBSET {"filename", "autosync"}, auto \in BOOLEAN :
       \E kw \in {[k \in K |-> IF k = "filename" THEN <<"given", 0>> ELSE auto]} :
       \E o \in {sfdict_init(kw, EmptyStr, shelf)} :
           /\ ("autosync" \notin K) => auto
           /\ shelf' = sync([shelf EXCEPT !.open = TRUE, !.kwargs = kw,
                                          !.filename = o.filename, !.autosync = o.autosync,
                                          !.tmp = o.tmp, !.opened = o.opened, !.view = o],
                            heap[RootRef], TRUE)
           /\ last' = [last EXCEPT !.op = "open"]
    /\ prev' = heap[RootRef]
    /\ history' = Append(history, "open")
    /\ UNCHANGED <<heap, fastview, nodel, delimiter, made>>

\* S[scope][key] = value on the sfdict: subscripting makes the view (a new
\* sfdict with the kwargs of the root and a rootpath), fdict.__setitem__
\* stores the value, and the object assigned through syncs when its autosync
\* is set.  Whether the backend writes an entry to the file before the next
\* sync depends on the dbm module in use.
ShelfSetStep ==
    /\ shelf.open
    /\ Len(history) < MaxShelfOps
    /\ \E x \in {y \in SetLeafInputs \cup SetDictInputs :
                  Depth(y[1][1], Slash) + Depth(y[1][2], Slash) + ValueDepth(y[2])
                      <= MaxShelfDepth},
          first \in Firsts(heap[RootRef]), through \in BOOLEAN :
       \E o \in {IF Len(x[1][1]) = 0
                  THEN [filename |-> shelf.filename, autosync |-> shelf.autosync,
                        tmp |-> shelf.tmp, opened |-> shelf.opened]
                  ELSE sfdict_init(shelf.kwargs, ViewAt(x[1][1]).rootpath, shelf)} :
       \E r \in {setitem(heap[RootRef], fastview, nodel, delimiter,
                          ViewAt(x[1][1]).rootpath, x[1][2], x[2], first)} :
           /\ heap' = [heap EXCEPT ![RootRef] = r.d]
           /\ shelf' = sync([shelf EXCEPT !.tmp = o.tmp, !.opened = o.opened,
                                          !.view = IF Len(x[1][1]) = 0 THEN @ ELSE o,
                                          !.file = IF through THEN r.d ELSE @],
                            r.d, o.autosync /\ r.err = "none")
           /\ last' = [op |-> IF x[2].kind = "leaf" THEN "setleaf" ELSE "setdict",
                       ref |-> RootRef, rootpath |-> ViewAt(x[1][1]).rootpath,
                       key |-> x[1][2], value |-> x[2], fullpath |-> FALSE, err |-> r.err,
                       ret |-> Ret("none", NoneVal, NoInstance)]
           /\ history' = Append(history, IF x[2].kind = "leaf" THEN "setleaf" ELSE "setdict")
    /\ prev' = heap[RootRef]
    /\ UNCHANGED <<fastview, nodel, delimiter, made>>

\* S.sync()
SyncStep ==
    /\ shelf.open
    /\ Len(history) < MaxShelfOps
    /\ shelf' = sync(shelf, heap[RootRef], TRUE)
    /\ last' = [last EXCEPT !.op = "sync"]
    /\ prev' = heap[RootRef]
    /\ history' = Append(history, "sync")
    /\ UNCHANGED <<heap, fastview, nodel, delimiter, made>>

NextShelf ==
    \/ OpenStep
    \/ ShelfSetStep
    \/ SyncStep

SpecShelf == Init /\ [][NextShelf]_vars

(***************************************************************************)
(* Vocabulary of the properties                                            *)
(***************************************************************************)
\* the backing map of the root fdict
Store == heap[RootRef]

\* the view the last call went through and the full path P it named
LastView == [ref |-> last.ref, rootpath |-> last.rootpath]
LastPath == build_path(delimiter, last.rootpath, last.key, EmptyStr)

\* the stored leaves of a dict, and those below the path P
LeafKeys(D) == {k \in DOMAIN D : D[k].kind = "leaf"}
Under(D, P) == {k \in LeafKeys(D) : StartsWith(k, P \o delimiter)}

\* the paths of the ancestors of the full key k
AncestorsOf(k) ==
    {Slice(get_all_parent_nodes(k, delimiter)[j], 0,
           Len(get_all_parent_nodes(k, delimiter)[j]) - Len(delimiter)) :
        j \in 1..Len(get_all_parent_nodes(k, delimiter))}

\* the full paths that lie below P: the leaves stored below P and the nodes
\* on the way to them
Descendants(D, P) ==
    Under(D, P) \cup
    {n \in UNION {AncestorsOf(k) : k \in Under(D, P)} : StartsWith(n, P \o delimiter)}

\* the leaves of the value of an assignment, keyed relative to the key
ValueLeaves(value) ==
    IF value.kind = "fdict"
    THEN viewitems(value.inst.d, value.inst.fastview, value.inst.nodel,
                   value.inst.delimiter, value.inst.rootpath, FALSE).items
    ELSE flatkeys(value.m, delimiter)

\* S[key] through the view h returns the stored payload val
Reads(h, key, val) ==
    /\ ~getitem(heap, delimiter, h, key).isview
    /\ getitem(heap, delimiter, h, key).value = val

\* S[key] through the view h returns an empty view
ReadsEmptyView(h, key) ==
    /\ getitem(heap, delimiter, h, key).isview
    /\ fdict_len(heap[getitem(heap, delimiter, h, key).view.ref], fastview, nodel, delimiter,
                 getitem(heap, delimiter, h, key).view.rootpath) = 0

Mutations == {"setleaf", "setdict", "update", "del", "pop"}

(***************************************************************************)
(* C1 .. C10                                                               *)
(***************************************************************************)
\* C1: in every mode and through every view, after a non-mapping value v was
\* assigned at P the assignment has completed without error, `P in S` is
\* true and S[P] returns v.
C1_SetLeafReadBack ==
    last.op = "setleaf" =>
        /\ last.err = "none"
        /\ contains(Store, fastview, nodel, delimiter, last.rootpath, last.key)
        /\ Reads(LastView, last.key, Leaf(last.value.v))

\* C2: in default and fastview mode, after delete(P) returned successfully
\* `P in S` is false.
C2_DeletedNotContained ==
    (last.op = "del" /\ ~nodel /\ last.err = "none") =>
        ~contains(Store, fastview, nodel, delimiter, last.rootpath, last.key)

\* P holds a leaf and is at the same time the prefix of other stored entries
LeafAndPrefix(D, P) ==
    P \in DOMAIN D /\ \E k \in DOMAIN D : StartsWith(k, P \o delimiter)

\* C2 (amended): in default and fastview mode, after delete(P) returned
\* successfully `P in S` is false, provided that before the delete P was not
\* both a stored leaf and the prefix of other stored entries.
C2_DeletedNotContainedUnlessBoth ==
    (last.op = "del" /\ ~nodel /\ last.err = "none" /\ ~LeafAndPrefix(prev, LastPath)) =>
        ~contains(Store, fastview, nodel, delimiter, last.rootpath, last.key)

\* a successful delete, through a view, of a node with leaves below it
C2_Witness ==
    /\ last.op = "del" /\ ~nodel /\ last.err = "none"
    /\ Len(last.rootpath) > 0
    /\ ~LeafAndPrefix(prev, LastPath)
    /\ Under(prev, LastPath) # {}
    /\ Store # prev

\* the dict D holds consistent fastview metadata: every ancestor of a stored
\* leaf has its marker, and the child-set of a marker is the set of stored
\* keys whose direct parent is that marker
FastviewConsistent(D) ==
    /\ \A k \in LeafKeys(D) :
           \A j \in 1..Len(get_all_parent_nodes(k, delimiter)) :
               get_all_parent_nodes(k, delimiter)[j] \in DOMAIN D
    /\ \A n \in DOMAIN D \ LeafKeys(D) :
           D[n].ch = {k \in DOMAIN D : k # n /\ get_parent_node(k, delimiter) = n}

\* C3: in fastview mode, after any sequence of set and delete operations at
\* the root or through views, every ancestor of every stored leaf has a
\* marker and every marker's child-set is exactly the set of stored full
\* paths whose direct parent it is.
C3_FastviewConsistency ==
    (fastview /\ \A i \in 1..Len(history) : history[i] \in {"setleaf", "setdict", "del"}) =>
        FastviewConsistent(Store)

\* C4: views share the backing map of the root: a view of any scope, also one
\* obtained from another view, reads the dict object the last mutation wrote,
\* and no other dict object was ever filled.
C4_ViewAliasing ==
    /\ \A s \in Scopes :
           /\ heap[ViewAt(s).ref] = heap[last.ref]
           /\ \A t \in MapKeys :
                  heap[getitem_view(ViewAt(s), build_path(delimiter, s, t, EmptyStr)).ref]
                      = heap[last.ref]
    /\ Store = heap[last.ref]
    /\ \A r \in Refs \ {RootRef} : heap[r] = EmptyDict

\* a mutation made through a view changed what the root reads
C4_Witness ==
    /\ last.op \in Mutations
    /\ Len(last.rootpath) > 0
    /\ last.err = "none"
    /\ Store # prev

\* the backing maps that the assignment of the last call leaves when it is
\* made at the root with the full path as the key
RootAssignment ==
    {setitem(prev, fastview, nodel, delimiter, EmptyStr, LastPath, last.value, first).d :
        first \in BOOLEAN}

\* C5: assigning a non-empty mapping (plain, or an fdict) through a view
\* scoped at S with key K leaves the same backing map as assigning it at the
\* root with key S/K: every leaf of the mapping is stored at S/K/<relative
\* path> and nowhere else, in every mode.
C5_ViewAssignmentAsRoot ==
    (last.op = "setdict" /\ Len(last.rootpath) > 0 /\ DOMAIN ValueLeaves(last.value) # {}) =>
        /\ Store \in RootAssignment
        /\ \A rel \in DOMAIN ValueLeaves(last.value) :
               /\ (LastPath \o delimiter \o rel) \in DOMAIN Store
               /\ Store[LastPath \o delimiter \o rel] = ValueLeaves(last.value)[rel]
        /\ \A k \in LeafKeys(Store) :
               \/ k \in LeafKeys(prev) /\ Store[k] = prev[k]
               \/ \E rel \in DOMAIN ValueLeaves(last.value) : k = LastPath \o delimiter \o rel

\* C6: assigning a mapping at a path P that holds a leaf never raises and
\* removes that leaf: afterwards no leaf is stored at exactly P, the leaves of
\* the mapping are stored under P and no other leaf is removed, in every mode
\* and through every view.
C6_MappingReplacesLeaf ==
    (last.op = "setdict" /\ LastPath \in LeafKeys(prev)) =>
        /\ last.err = "none"
        /\ LastPath \notin DOMAIN Store
        /\ \A rel \in DOMAIN ValueLeaves(last.value) :
               /\ (LastPath \o delimiter \o rel) \in DOMAIN Store
               /\ Store[LastPath \o delimiter \o rel] = ValueLeaves(last.value)[rel]
        /\ LeafKeys(prev) \ {LastPath} \subseteq LeafKeys(Store)

\* the backing maps that the delete of the last call leaves when it is made
\* at the root with the full path as the key
RootDelete ==
    {delitem(prev, fastview, nodel, delimiter, EmptyStr, LastPath, FALSE, first).d :
        first \in BOOLEAN}

\* what a cascading delete of the path of the last call has to leave
CascadeDone ==
    /\ last.err = "none"
    /\ LeafKeys(Store) = LeafKeys(prev) \ Under(prev, LastPath)
    /\ \A k \in LeafKeys(Store) : Store[k] = prev[k]
    /\ \A q \in Descendants(prev, LastPath) :
           /\ ~contains(Store, fastview, nodel, delimiter, EmptyStr, q)
           /\ ReadsEmptyView(RootHandle, q)
    /\ Store \in RootDelete

\* C7: in default and fastview mode, deleting a node path P removes exactly
\* the leaves stored under P/ and leaves every other leaf unchanged; every
\* former descendant path is then not contained and reads as an empty view;
\* the delete through chained views leaves the same backing map as the delete
\* at the root with the full path.  A node path is a path with leaves below
\* it that holds no leaf itself (the default mode lets a path be both, and
\* then delete removes the leaf only).
C7_CascadingDelete ==
    (last.op = "del" /\ ~nodel /\ Under(prev, LastPath) # {} /\ LastPath \notin DOMAIN prev) =>
        CascadeDone

\* C8: in default and fastview mode, delete on a path that matches no leaf
\* and has no descendant raises KeyError and leaves the backing map, fastview
\* metadata included, unchanged.
C8_DeleteMissing ==
    (last.op = "del" /\ ~nodel /\ LastPath \notin LeafKeys(prev) /\ Under(prev, LastPath) = {}) =>
        /\ last.err = "KeyError"
        /\ Store = prev

C10_NodelMarkersStay ==
    nodel => \A k \in DOMAIN prev :
                 prev[k] = NoneVal => (k \in DOMAIN Store /\ Store[k] = NoneVal)

(***************************************************************************)
(* C11 .. C20                                                              *)
(***************************************************************************)
\* the fdict made by copy() or extract() exists and the last call went
\* through it / through a view of the root
MadeDict == heap[MadeRef]
OnMade == made.exists /\ last.ref = MadeRef
OnlyOps(ops) == \A i \in 1..Len(history) : history[i] \in ops

\* every strict ancestor of every leaf stored in D has its nodel marker
NodelMarked(D) ==
    \A k \in LeafKeys(D) :
        \A j \in 1..Len(get_all_parent_nodes(k, delimiter)) :
            /\ get_all_parent_nodes(k, delimiter)[j] \in DOMAIN D
            /\ D[get_all_parent_nodes(k, delimiter)[j]] = NoneVal

\* C11: in nodel mode, the store constructed from initial content and every
\* store that assignments, updates, copy() or extract() produce from it hold
\* a node marker (null value) for every strict ancestor of every stored leaf.
C11_NodelAncestorsMarked ==
    (nodel /\ OnlyOps({"setleaf", "setdict", "update", "copy", "extract"})) =>
        /\ NodelMarked(Store)
        /\ made.exists => NodelMarked(MadeDict)

\* the leaf entries visible under the scope rootpath of the dict D, keyed
\* relative to the scope
VisibleFrom(D, K, off) ==
    [x \in {Slice(k, off, Len(k)) : k \in K} |-> D[CHOOSE k \in K : Slice(k, off, Len(k)) = x]]
VisibleLeaves(D, rootpath) ==
    IF Len(rootpath) = 0 THEN VisibleFrom(D, LeafKeys(D), 0)
    ELSE VisibleFrom(D, Under(D, rootpath), Len(rootpath) + Len(delimiter))

\* the leaf entries of the right-hand side of a comparison
OperandLeaves(value) ==
    IF value.kind = "fdict" THEN VisibleLeaves(value.inst.d, value.inst.rootpath)
    ELSE flatkeys(value.m, delimiter)

\* C12: a store or view compares equal to any store or view with the same
\* visible leaf entries, whatever the modes of the two sides and whatever
\* node markers their backing maps hold.
C12_EqualityModeInvariant ==
    (/\ last.op = "eq" /\ last.value.kind = "fdict"
     /\ VisibleLeaves(Store, last.rootpath) = OperandLeaves(last.value)) =>
        /\ last.err = "none"
        /\ last.ret = Ret("bool", TRUE, NoInstance)

\* C13: when the visible leaf entries of the two sides differ, == is false
\* and != is true, for a plain mapping and for a store of any mode on the
\* right-hand side.
C13_EqualityDiscriminates ==
    (/\ last.op \in {"eq", "ne"} /\ last.value.kind \in {"dict", "fdict"}
     /\ VisibleLeaves(Store, last.rootpath) # OperandLeaves(last.value)) =>
        /\ last.err = "none"
        /\ last.ret = Ret("bool", last.op = "ne", NoInstance)

\* the made fdict is a copy(), resp. an extract(), and the frame of a
\* mutation: a call through one of the two fdicts leaves the dict of the
\* other as it was
MadeBy(op) == made.exists /\ \E i \in 1..Len(history) : history[i] = op
OtherUnchanged ==
    /\ last.ref = MadeRef => Store = prev
    /\ last.ref = RootRef => MadeDict = made.prev

\* C14: copy() returns an fdict with the same leaves, scope and mode over
\* its own backing map, none of its child-sets being an object of the
\* original; a later assignment, update or delete through one of the two
\* leaves the backing map of the other unchanged.
C14_CopyIsIndependent ==
    /\ last.op = "copy" =>
           /\ last.err = "none" /\ made.exists
           /\ made.rootpath = last.rootpath
           /\ last.ret.inst.fastview = fastview /\ last.ret.inst.nodel = nodel
           /\ LeafKeys(MadeDict) = LeafKeys(prev)
           /\ \A k \in LeafKeys(prev) : MadeDict[k] = prev[k]
           /\ made.shared = {}
    /\ (MadeBy("copy") /\ last.op \in {"setleaf", "setdict", "update", "del"}) => OtherUnchanged

\* the copy of a fastview store with markers was changed by an assignment,
\* and the original was changed after a copy was taken
C14_Witness ==
    /\ MadeBy("copy") /\ fastview
    /\ last.op = "setleaf" /\ last.err = "none"
    /\ \E k \in DOMAIN made.prev : made.prev[k].kind = "set"
    /\ MadeDict # made.prev

\* the markers of D are the ancestors of its leaves, no more
MarkersOfLeaves(D) ==
    DOMAIN D \ LeafKeys(D) =
        UNION {{get_all_parent_nodes(k, delimiter)[j] :
                   j \in 1..Len(get_all_parent_nodes(k, delimiter))} : k \in LeafKeys(D)}

\* the leaves an extract through the last view has to hold: those visible
\* under the scope before the call, under their full or their relative keys
ExtractedLeaves ==
    IF last.fullpath /\ Len(last.rootpath) > 0
    THEN [k \in Under(prev, last.rootpath) |-> prev[k]]
    ELSE VisibleLeaves(prev, last.rootpath)

RECURSIVE DropEmpty(_)
DropEmpty(M) ==
    [k \in {x \in DOMAIN M : M[x].isdict => DOMAIN DropEmpty(M[x].m) # {}} |->
        IF M[k].isdict THEN MDict(DropEmpty(M[k].m)) ELSE M[k]]

\* no key of the nested dict M, at any level, contains the delimiter
RECURSIVE PlainKeys(_)
PlainKeys(M) ==
    \A k \in DOMAIN M :
        /\ StrFind(k, delimiter, 0) = -1
        /\ M[k].isdict => PlainKeys(M[k].m)

\* C16: for every nested mapping M, in every mode, the store built from M
\* converts back with to_dict_nested() to M without its empty sub-mappings.
C16_RoundTrip ==
    last.op = "roundtrip" =>
        /\ last.err = "none"
        /\ last.ret = Ret("dict", DropEmpty(last.value.m), NoInstance)

\* C16 (amended): for every nested mapping M none of whose keys contains the
\* delimiter, in every mode, the store built from M converts back with
\* to_dict_nested() to M without its empty sub-mappings.
C16_RoundTripPlainKeys ==
    (last.op = "roundtrip" /\ PlainKeys(last.value.m)) =>
        /\ last.err = "none"
        /\ last.ret = Ret("dict", DropEmpty(last.value.m), NoInstance)

\* a nested dict two levels deep with an empty dict inside was converted back
C16_Witness ==
    /\ last.op = "roundtrip" /\ PlainKeys(last.value.m)
    /\ DropEmpty(last.value.m) # last.value.m
    /\ \E k \in DOMAIN last.ret.value : last.ret.value[k].isdict

\* C17: update() with a value that is neither a mapping nor an fdict raises
\* ValueError and leaves the backing map unchanged, in every mode and
\* through every view.
C17_UpdateRejectsNonMapping ==
    (last.op = "update" /\ last.value.kind = "leaf") =>
        /\ last.err = "ValueError"
        /\ Store = prev

\* update() with a payload through a view of a store that holds entries
C17_Witness ==
    /\ last.op = "update" /\ last.value.kind = "leaf"
    /\ Len(last.rootpath) > 0
    /\ Under(Store, last.rootpath) # {}
    /\ Len(history) = MaxOps

\* the dict behind the view of the last call, now and before the call
Target == heap[last.ref]
TargetBefore == IF last.ref = RootRef THEN prev ELSE made.prev

\* the leaves of the argument of the last update, rebased under its scope
UnderScope(L, S) ==
    [x \in {S \o delimiter \o k : k \in DOMAIN L} |->
        L[CHOOSE k \in DOMAIN L : S \o delimiter \o k = x]]
MergedLeaves ==
    IF Len(last.rootpath) = 0 THEN OperandLeaves(last.value)
    ELSE UnderScope(OperandLeaves(last.value), last.rootpath)

\* C18: update(d2) through a view scoped at S leaves, as leaves, the
\* previous ones overridden or extended by the flattened leaves of d2
\* rebased under S, every other leaf being kept; the backing map is the one
\* the update with the flat mapping of the same leaves produces, whether d2
\* is a nested or flat mapping, an fdict, a view of another store or an
\* extract of it with full or relative keys.
C18_UpdateMerges ==
    (last.op = "update" /\ last.value.kind \in {"dict", "fdict"}) =>
        /\ last.err = "none"
        /\ LeafKeys(Target) = LeafKeys(TargetBefore) \cup DOMAIN MergedLeaves
        /\ \A k \in DOMAIN MergedLeaves : Target[k] = MergedLeaves[k]
        /\ \A k \in LeafKeys(TargetBefore) \ DOMAIN MergedLeaves : Target[k] = TargetBefore[k]
        /\ Target = update_flat(TargetBefore, fastview, nodel, delimiter, last.rootpath,
                                OperandLeaves(last.value)).d

\* an update through a view with the extract of a view of another store
\* overrode a leaf and kept another one
C18_Witness ==
    /\ last.op = "update" /\ last.value.kind = "fdict" /\ last.err = "none"
    /\ Len(last.rootpath) > 0
    /\ Len(last.value.inst.rootpath) > 0
    /\ DOMAIN last.value.inst.d = LeafKeys(last.value.inst.d)
    /\ \E k \in DOMAIN MergedLeaves : k \in LeafKeys(TargetBefore) /\ TargetBefore[k] # Target[k]
    /\ LeafKeys(TargetBefore) \ DOMAIN MergedLeaves # {}

\* the full keys of the leaves visible under the scope of the last call,
\* before the call
VisibleBefore ==
    IF Len(last.rootpath) = 0 THEN LeafKeys(prev) ELSE Under(prev, last.rootpath)

\* the last call removed the leaf F, and nothing else among the leaves
RemovedLeaf(F) ==
    /\ LeafKeys(Store) = LeafKeys(prev) \ {F}
    /\ \A k \in LeafKeys(Store) : Store[k] = prev[k]

\* C19: popitem() raises KeyError and leaves the backing map unchanged when
\* no entry is visible under the scope; otherwise it returns the key (full,
\* or relative to the scope) and the value of one leaf visible under the
\* scope and removes exactly that leaf, in every mode and through every view.
C19_PopItem ==
    last.op = "popitem" =>
        IF VisibleBefore = {}
        THEN last.err = "KeyError" /\ Store = prev
        ELSE /\ last.err = "none"
             /\ \E F \in VisibleBefore :
                    /\ F \in {last.key, LastPath}
                    /\ last.ret = Ret("value", prev[F], NoInstance)
                    /\ RemovedLeaf(F)

\* C20: pop(k, default) on a leaf visible under the scope returns the stored
\* value of that leaf, whatever the value, and removes exactly that leaf; in
\* fastview mode consistent metadata stays consistent.
C20_PopLeaf ==
    (last.op = "pop" /\ LastPath \in LeafKeys(prev)) =>
        /\ last.err = "none"
        /\ last.ret = Ret("value", prev[LastPath], NoInstance)
        /\ RemovedLeaf(LastPath)
        /\ (fastview /\ FastviewConsistent(prev)) => FastviewConsistent(Store)

(***************************************************************************)
(* C21 .. C30                                                              *)
(***************************************************************************)
\* the leaves the fdict an operation returned holds in its backing map
ReturnedLeaves == [k \in LeafKeys(last.ret.inst.d) |-> last.ret.inst.d[k]]

\* the leaves below the full path P before the last call, under their full
\* keys or under their keys relative to P
SubtreeLeaves(P, fullpath) ==
    IF fullpath THEN [k \in Under(prev, P) |-> prev[k]]
    ELSE VisibleFrom(prev, Under(prev, P), Len(P) + Len(delimiter))

\* the last call removed the leaves below P, and nothing else among the leaves
RemovedSubtree(P) ==
    /\ LeafKeys(Store) = LeafKeys(prev) \ Under(prev, P)
    /\ \A k \in LeafKeys(Store) : Store[k] = prev[k]

\* C21: pop(k, default) where k is a node returns an extracted store holding
\* exactly the leaves of k's subtree and removes that whole subtree from the
\* original; where k matches neither a leaf nor a node it returns the default
\* and leaves the backing map unchanged.
C21_PopNode ==
    (last.op = "pop" /\ LastPath \notin DOMAIN prev) =>
        /\ Under(prev, LastPath) # {} =>
               /\ last.err = "none"
               /\ last.ret.kind = "fdict"
               /\ ReturnedLeaves = SubtreeLeaves(LastPath, last.fullpath)
               /\ RemovedSubtree(LastPath)
        /\ (Under(prev, LastPath) = {} /\ (LastPath \o delimiter) \notin DOMAIN prev) =>
               /\ last.err = "none"
               /\ last.ret = Ret("default", NoneVal, NoInstance)
               /\ Store = prev

\* the full path P named by the last call matched neither a leaf nor a node
\* before the call
Missing(P) ==
    /\ P \notin DOMAIN prev
    /\ Under(prev, P) = {}
    /\ (P \o delimiter) \notin DOMAIN prev

\* C22: pop(k) called without a default on a key that matches neither a leaf
\* nor a node raises KeyError.  (pop(k) is pop(k, d=None): the code has one
\* path for both, the one the pop action takes.)
C22_PopMissingRaises ==
    (last.op = "pop" /\ Missing(LastPath)) => last.err = "KeyError"

\* the view over the backing map of the root scoped at the full path P, its
\* keys (nodes=False) and its comparison with the empty mapping
ViewOn(P) == Instance(Store, P, delimiter, fastview, nodel)
KeysOf(P) == viewkeys(Store, fastview, nodel, delimiter, P, FALSE, FALSE, EmptyStr)
IsEmptyView(P) ==
    /\ KeysOf(P) = Keys({})
    /\ fdict_eq(ViewOn(P), VDict(EmptyMap)) = [eq |-> TRUE, err |-> "none"]

\* S[key] through the view h, P being the full path of key
GetsAt(h, key, P) ==
    IF P \in DOMAIN Store
    THEN Reads(h, key, Store[P])
    ELSE /\ getitem(heap, delimiter, h, key).isview
         /\ getitem(heap, delimiter, h, key).view = [ref |-> h.ref, rootpath |-> P]
         /\ Under(Store, P) = {} => IsEmptyView(P)

\* C23: for every store, scope and key, S[key] returns the stored value when
\* an entry exists at exactly the full path, and otherwise a view scoped to
\* that full path over the same backing map (with the delimiter and mode of
\* the store), which has no keys and equals the empty mapping when no leaf
\* lies below the path.
C23_GetIsTotal ==
    \A sk \in ScopeKeys :
        GetsAt(ViewAt(sk[1]), sk[2], build_path(delimiter, sk[1], sk[2], EmptyStr))

\* no path of D is both a stored leaf and a node
NoLeafNode(D) ==
    \A P \in LeafKeys(D) : (P \o delimiter) \notin DOMAIN D /\ Under(D, P) = {}

\* C24: in fastview mode, after any sequence of leaf assignments, mapping
\* assignments, updates and deletes, no path is at the same time a stored
\* leaf and a node: no leaf P has its marker P+delimiter, or a leaf below
\* P+delimiter, stored as well.
C24_FastviewNoLeafNode ==
    (fastview /\ OnlyOps({"setleaf", "setdict", "update", "del"})) => NoLeafNode(Store)

\* the leaves of the source of a construction: of a dict or a sequence of
\* pairs flattened, the visible leaves of an fdict or a view
SourceLeaves(value) ==
    IF value.kind = "fdict" THEN VisibleLeaves(value.inst.d, value.inst.rootpath)
    ELSE IF value.kind = "pairs" THEN flatkeys(dict_pairs(value.m), delimiter)
    ELSE flatkeys(value.m, delimiter)

\* the metadata of the backing map D is complete for its leaves
CompleteMetadata(D, fv, nd) ==
    /\ fv => FastviewConsistent(D)
    /\ nd => NodelMarked(D)

\* C25: a store constructed from a nested mapping, a flat mapping with
\* delimiter-joined keys, a sequence of pairs or another instance has the
\* visible leaves of its source; constructed with fastview or nodel, its
\* backing map holds the complete node metadata of these leaves, whatever
\* the type or the mode of the source.
C25_Construct ==
    last.op = "construct" =>
        /\ last.err = "none"
        /\ VisibleLeaves(last.ret.inst.d, EmptyStr) = SourceLeaves(last.value)
        /\ viewitems(last.ret.inst.d, last.ret.inst.fastview, last.ret.inst.nodel,
                     delimiter, EmptyStr, FALSE)
               = [items |-> SourceLeaves(last.value), err |-> "none"]
        /\ CompleteMetadata(last.ret.inst.d, last.ret.inst.fastview, last.ret.inst.nodel)

\* the default-mode definition of `P in S`: P is a stored leaf, or a stored
\* leaf lies below P
HasLeafAt(P) == P \in LeafKeys(Store) \/ Under(Store, P) # {}

\* C26: in fastview mode, after any sequence of operations, `P in S` as the
\* marker lookup answers it is true if and only if P is a stored leaf or at
\* least one stored leaf has P+delimiter as a prefix.
C26_FastviewContains ==
    fastview =>
        \A sk \in ScopeKeys :
            contains(Store, fastview, nodel, delimiter, sk[1], sk[2])
                <=> HasLeafAt(build_path(delimiter, sk[1], sk[2], EmptyStr))

\* the keys of the leaves stored below the scope S, full or relative to S
LeavesBelow(S, fullpath) ==
    {Slice(k, IF fullpath THEN 0 ELSE Len(S) + Len(delimiter), Len(k)) : k \in Under(Store, S)}

\* the items of the leaves stored below the scope S
ItemsBelow(S, fullpath) ==
    IF fullpath THEN [k \in Under(Store, S) |-> Store[k]] ELSE VisibleLeaves(Store, S)

\* C27: in every mode, the keys and the items (hence the values) of a view
\* scoped at S, with nodes=False, are those of every stored leaf whose full
\* path starts with S+delimiter and nothing else, relative to S unless
\* fullpath=True; the fastview worklist traversal and the prefix filter of
\* the other modes so yield the same leaves.
C27_ViewIteration ==
    \A S \in Scopes \ {EmptyStr} : \A fullpath \in BOOLEAN :
        /\ viewkeys(Store, fastview, nodel, delimiter, S, fullpath, FALSE, EmptyStr)
               = Keys(LeavesBelow(S, fullpath))
        /\ viewitems(Store, fastview, nodel, delimiter, S, fullpath)
               = [items |-> ItemsBelow(S, fullpath), err |-> "none"]

\* the leaves visible under the scope S: all of them at the root
VisibleAt(S) == IF Len(S) = 0 THEN LeafKeys(Store) ELSE Under(Store, S)

\* C28: len() of a view is the number of leaves visible under its scope and
\* len() of the root the number of stored leaves: markers are counted in no
\* mode, and the store is falsy (its length is zero) exactly when no leaf is
\* visible.
C28_LenCountsLeaves ==
    \A S \in Scopes :
        /\ len_keys(ViewOn(S)).err = "none"
        /\ Cardinality(len_keys(ViewOn(S)).keys) = Cardinality(VisibleAt(S))
        /\ fdict_len(Store, fastview, nodel, delimiter, S) = Cardinality(VisibleAt(S))

\* C29: in default mode, assigning a non-mapping value at a path P that is a
\* strict prefix of stored leaves removes none of them: afterwards the leaf
\* at P and the leaves below P are all stored, S[P] returns the value
\* assigned, and the iteration of the root as well as the access by full path
\* give every leaf that was below P.
C29_DefaultLeafAndNode ==
    (last.op = "setleaf" /\ ~fastview /\ ~nodel /\ Under(prev, LastPath) # {}) =>
        /\ last.err = "none"
        /\ Reads(LastView, last.key, Leaf(last.value.v))
        /\ \A k \in Under(prev, LastPath) :
               /\ k \in viewkeys(Store, fastview, nodel, delimiter, EmptyStr,
                                 FALSE, FALSE, EmptyStr).keys
               /\ viewitems(Store, fastview, nodel, delimiter, EmptyStr, FALSE).items[k] = prev[k]
               /\ Reads(RootHandle, k, prev[k])
        /\ LeafKeys(Store) = LeafKeys(prev) \cup {LastPath}

\* a leaf was assigned through a view at a path above two stored leaves
C29_Witness ==
    /\ last.op = "setleaf" /\ ~fastview /\ ~nodel /\ last.err = "none"
    /\ Len(last.rootpath) > 0
    /\ Cardinality(Under(prev, LastPath)) = 2
    /\ LastPath \notin DOMAIN prev
    /\ Under(Store, LastPath) = Under(prev, LastPath)

\* C30: in fastview mode, assigning a non-mapping value at the full path P,
\* at the root or through a view scoped to a prefix of P, completes without
\* raising; the subtree below P (leaves and markers) and the leaves held by
\* the strict ancestors of P are removed, P holds the value, and every other
\* leaf is unchanged.
C30_FastviewLeafAssignment ==
    (last.op = "setleaf" /\ fastview) =>
        /\ last.err = "none"
        /\ LastPath \in DOMAIN Store /\ Store[LastPath] = Leaf(last.value.v)
        /\ \A k \in DOMAIN Store : ~StartsWith(k, LastPath \o delimiter)
        /\ LeafKeys(Store) =
               (LeafKeys(prev) \ (Under(prev, LastPath) \cup AncestorsOf(LastPath)))
                   \cup {LastPath}
        /\ \A k \in LeafKeys(Store) \ {LastPath} : Store[k] = prev[k]

(***************************************************************************)
(* C31 .. C39                                                              *)
(***************************************************************************)
\* the last call assigned an empty mapping (an empty dict or an empty fdict)
AssignedEmpty == last.op = "setdict" /\ IsEmptyValue(last.value)

\* C31: assigning an empty mapping at P adds no entry to the backing map in
\* any mode; it can only remove what was stored at P (the leaf at P, and in
\* fastview mode the subtree below P), every other leaf being unchanged.
C31_EmptyMappingAddsNothing ==
    AssignedEmpty =>
        /\ DOMAIN Store \subseteq DOMAIN prev
        /\ \A k \in LeafKeys(prev) \ ({LastPath} \cup
                                       (IF fastview THEN Under(prev, LastPath) ELSE {})) :
               k \in LeafKeys(Store) /\ Store[k] = prev[k]

\* no node marker of D has an empty child-set
NoEmptyMarker(D) == \A n \in DOMAIN D : D[n].kind = "set" => D[n].ch # {}

\* C32: in fastview mode no node marker with an empty child-set remains after
\* a delete: a parent whose child-set the delete empties is removed and
\* unlinked from its own parent, up the chain of the ancestors, so that
\* deleting the last leaf below a top-level key leaves no entry with that
\* prefix.
C32_NoEmptyMarkerAfterDelete ==
    (fastview /\ last.op = "del" /\ last.err = "none" /\ NoEmptyMarker(prev)) =>
        /\ NoEmptyMarker(Store)
        /\ \A t \in {<<s>> : s \in Segments} :
               Under(Store, t) = {} => ~\E k \in DOMAIN Store : StartsWith(k, t \o delimiter)

\* the entries (leaves and markers) stored strictly below the scope S, all
\* the entries for the root; their keys as a view yields them
EntriesBelow(S) ==
    IF Len(S) = 0 THEN DOMAIN Store
    ELSE {k \in DOMAIN Store : StartsWith(k, S \o delimiter) /\ k # S \o delimiter}
YieldedAs(K, S, fullpath) ==
    {Slice(k, IF fullpath \/ Len(S) = 0 THEN 0 ELSE Len(S) + Len(delimiter), Len(k)) : k \in K}

\* C33: with nodes=True the iteration of a fastview or nodel store yields the
\* leaves and every marker strictly below the scope (all the markers at the
\* root), never the marker of the scope itself; with nodes=False, and in
\* default mode whatever the flag, no key ending with the delimiter is
\* yielded.
C33_NodesFlag ==
    \A S \in Scopes : \A fullpath \in BOOLEAN :
        /\ (fastview \/ nodel) =>
               viewkeys(Store, fastview, nodel, delimiter, S, fullpath, TRUE, EmptyStr)
                   = Keys(YieldedAs(EntriesBelow(S), S, fullpath))
        /\ \A nodes \in BOOLEAN : (~nodes \/ (~fastview /\ ~nodel)) =>
               \A k \in viewkeys(Store, fastview, nodel, delimiter, S, fullpath, nodes,
                                 EmptyStr).keys : ~IsNodeKey(k, delimiter)

\* C34: in fastview mode update(), pop(), popitem() and the assignment of a
\* mapping (a plain dict or another instance), at the root or through a view,
\* keep the child-sets consistent: issued on a store where every ancestor of
\* every leaf has a marker and every child-set is exact, they leave such a
\* store.
C34_FastviewConsistencyOfBulkOps ==
    (/\ fastview
     /\ last.op \in {"update", "pop", "popitem", "setdict"}
     /\ FastviewConsistent(prev)) => FastviewConsistent(Store)

\* Y == X for the comparison X == Y the last call made, Y an fdict or a view
Converse ==
    fdict_eq(last.value.inst,
             VFdict(Instance(Store, last.rootpath, delimiter, fastview, nodel)))

\* C37: equality is symmetric: when a store or view X was compared with a
\* store or view Y of any mode and scope, X == Y answered True exactly when
\* Y == X answers True.
C37_EqSymmetric ==
    (last.op = "eq" /\ last.value.kind = "fdict") =>
        ((last.err = "none" /\ last.ret.value) <=> (Converse.err = "none" /\ Converse.eq))

AncestorLengths(path, delim) ==
    {i \in 1..(Len(path) - 1) : EndsWith(SubSeq(path, 1, i), delim)}

\* the i-th longest element of a set of numbers
RECURSIVE Descending(_)
Descending(S) == IF S = {} THEN << >> ELSE <<SetMax(S)>> \o Descending(S \ {SetMax(S)})

\* the ancestors of the path, nearest first
AncestorsNearestFirst(path, delim) ==
    [i \in 1..Cardinality(AncestorLengths(path, delim)) |->
        SubSeq(path, 1, Descending(AncestorLengths(path, delim))[i])]

\* the name of the last segment of a node path: what lies between the
\* delimiter that ends it and the delimiter before
SegmentName(node, delim) ==
    Slice(node, Len(get_parent_node(node, delim)), Len(node) - Len(delim))

\* C39: for any path and any non-empty delimiter, _get_all_parent_nodes yields
\* every proper prefix of the path that ends with the delimiter, nearest
\* first, the first being _get_parent_node(path) (the empty string for a
\* top-level path); _get_all_parent_nodes_nested yields the segment names of
\* those ancestors root-first; _build_path joins the non-empty parts among
\* scope and key with the delimiter.
C39_PathEngine ==
    last.op = "path" =>
        /\ last.ret.value.parents = AncestorsNearestFirst(last.key, last.ret.value.delimiter)
        /\ last.ret.value.parent =
               IF Len(last.ret.value.parents) = 0 THEN EmptyStr
               ELSE last.ret.value.parents[1]
        /\ Len(last.ret.value.nested) = Len(last.ret.value.parents)
        /\ \A i \in 1..Len(last.ret.value.nested) :
               last.ret.value.nested[i] =
                   SegmentName(last.ret.value.parents[Len(last.ret.value.parents) + 1 - i],
                               last.ret.value.delimiter)
        /\ last.ret.value.built =
               IF Len(last.rootpath) = 0 THEN last.key
               ELSE IF Len(last.key) = 0 THEN last.rootpath
               ELSE last.rootpath \o last.ret.value.delimiter \o last.key

\* an assignment on the persistent store has just returned
Assigned == shelf.open /\ last'.op \in {"setleaf", "setdict"} /\ last'.err = "none"

\* C35: on a persistent store opened with autosync, every assignment that
\* returns, at the root or through a view, has run one sync, after which the
\* file holds the store; on a store opened without autosync an assignment
\* runs no sync; an explicit sync() commits the store to the file.  (What the
\* file holds between an assignment and the next sync is left to the backend.)
C35_Autosync ==
    [][/\ Assigned =>
              IF shelf.autosync
              THEN /\ shelf'.syncs = shelf.syncs + 1
                   /\ shelf'.synced = heap'[RootRef]
                   /\ shelf'.file = heap'[RootRef]
              ELSE /\ shelf'.syncs = shelf.syncs
                   /\ shelf'.synced = shelf.synced
       /\ last'.op = "sync" =>
              /\ shelf'.syncs = shelf.syncs + 1
              /\ shelf'.file = heap'[RootRef]]_vars

C35_Witness ==
    /\ shelf.open /\ shelf.autosync
    /\ last.op = "setleaf" /\ last.err = "none" /\ Len(last.rootpath) > 0
    /\ Store # prev
    /\ shelf.syncs = 2 /\ shelf.file = Store

\* C35 as stated: in addition, without autosync the file holds what the last
\* sync committed, so that a second handle sees a change only after sync()
C35_VisibleOnlyAfterSync ==
    [][/\ Assigned =>
              IF shelf.autosync
              THEN /\ shelf'.syncs = shelf.syncs + 1
                   /\ shelf'.file = heap'[RootRef]
              ELSE /\ shelf'.syncs = shelf.syncs
                   /\ shelf'.file = shelf'.synced
       /\ last'.op = "sync" => shelf'.file = heap'[RootRef]]_vars

\* C36: a view obtained by subscripting a persistent store opens no second
\* backend and has the filename of the root, whether the filename was given
\* or generated.
C36_ViewSharesShelf ==
    (shelf.open /\ last.op \in {"setleaf", "setdict"} /\ Len(last.rootpath) > 0) =>
        /\ shelf.opened = 1
        /\ shelf.view.filename = shelf.filename

====
